---- MODULE Spec2Model ----
(***************************************************************************)
(* A model of the cross-exchange mean-reversion analyzer:                  *)
(*   analyzer/lib/analysis.py   count_complete_cycles, analyze_pair_fast   *)
(*   analyzer/run_all_ultra.py  analyze_symbol_batch,                      *)
(*                              run_ultra_fast_analysis                    *)
(*   analyzer/lib/data_loader.py  load_exchange_symbol_data                *)
(*                                                                         *)
(* Five state machines share the module, each with its own specification:  *)
(*   SpecCycles  the row-by-row scan of count_complete_cycles              *)
(*   SpecPair    one call of analyze_pair_fast on two tick series          *)
(*   SpecBatch   one symbol task of analyze_symbol_batch                   *)
(*   SpecRun     the orchestrator run_ultra_fast_analysis and its pool     *)
(*   SpecLoad    one call of load_exchange_symbol_data, to its file list   *)
(* A specification leaves the variables of the other machines at their     *)
(* initial values.                                                         *)
(***************************************************************************)
EXTENDS Integers, Sequences, FiniteSets, TLC

VARIABLES
    \* ---- count_complete_cycles (analysis.py:11-42)
    above,          \* the above_threshold_series argument, a sequence of booleans
    neutral,        \* the in_neutral_series argument, same length
    i,              \* number of rows the for loop has processed
    cycles,         \* local `cycles`
    was_above,      \* local `was_above`
    cpc,            \* "scan" while in the loop, "done" once returned
    hist,           \* history: (was_above, cycles) after each processed row
    returned,       \* history: the values returned by the calls made so far
    \* ---- analyze_pair_fast (analysis.py:45-243)
    data1,          \* argument data1: the anchor tick series (exchange 1)
    data2,          \* argument data2: the tick series of exchange 2
    thresholds,     \* argument thresholds: a triple, or ThresholdsNone
    zero_threshold, \* argument zero_threshold
    ts_dtype1,      \* dtype of data1's timestamp column: "datetime" or "int"
    ts_dtype2,      \* dtype of data2's timestamp column
    ppc,            \* "call" before the call; after it "returned", or "raised"
                    \* when an exception left the function
    exc,            \* history: the exception raised inside the try block, or "none"
    joined,         \* local `joined` at the return: the synchronized rows
    deviation,      \* column joined['deviation'] at the return
    stats,          \* the return value: a metric record or NoneResult
    \* ---- analyze_symbol_batch (run_all_ultra.py:39-110)
    exchanges,      \* the task's exchange list, in the order the task lists it
    futures,        \* future_to_exchange: exchange -> "pending" or the load's outcome
    collected,      \* exchanges whose future the as_completed loop has handled
    first_completed, \* history: the exchange as_completed yielded first, 0 before
    exchange_data,  \* dict exchange_data: exchange -> loaded frame
    loadCalls,      \* history: calls of load_exchange_symbol_data per exchange
    exchange_pairs, \* list exchange_pairs
    results,        \* list results
    analyzed,       \* history: the pairs handed to analyze_pair_fast
    bpc,            \* "submit", "collect", "pairs", "done"; "raised" if an
                    \* exception left the task
    \* ---- run_ultra_fast_analysis (run_all_ultra.py:113-285)
    discovered,     \* what discover_data returned, in dict order
    exchanges_filter, \* argument exchanges_filter, a set; empty when not given
    symbols_to_analyze, \* local symbols_to_analyze, in dict order: symbol ->
                    \* exchange set
    disk,           \* per symbol of symbols_to_analyze: exchange -> what
                    \* loading its files gives
    run_thresholds, \* argument thresholds of the run: a triple, or ThresholdsNone
    tasks,          \* list tasks: one (symbol, exchanges) per symbol
    total_pairs,    \* local total_pairs
    taskq,          \* the pool's task queue: indices of tasks not yet taken
    worker,         \* per pool worker: the task it runs, 0 when idle
    outq,           \* the pool's result queue: batches not yet received
    successful,     \* local successful
    skipped,        \* local skipped
    errors,         \* local errors
    processed_pairs, \* local processed_pairs
    all_stats,      \* list all_stats
    stats_df,       \* stats_df after its sort, as written to the CSV file
    cycles_sorted,  \* cycles_sorted
    rpc,            \* "start", "loop", "save", "rank", "summary"; "returned"
                    \* after an early return, "crashed" after an exception
    taken,          \* history: per task, how often a worker took it
    received,       \* history: per task, how often its batch was received
    \* ---- load_exchange_symbol_data (data_loader.py:12-124)
    exchange_exists, \* whether the directory exchange=<exchange> exists
    symbol_dirs,    \* the names RAW of the directories symbol=RAW of the exchange
    load_symbol,    \* argument symbol of the loader, a string
    symbol_path,    \* local symbol_path: the RAW of the directory chosen, or NoPath
    start_date,     \* argument start_date: a date string, or NoDate
    end_date,       \* argument end_date
    partitions,     \* the date=... directories of the symbol: date string -> whether
                    \* the directory holds parquet files
    available_dates, \* local available_dates, as a set
    visited,        \* history: the date directories whose hours were globbed
    all_files,      \* local all_files: the date strings whose files were collected
    lpc,            \* "call", "resolve", "start", "filter", "collect", "all", "scan",
                    \* "returned"
    file_read,      \* history: what the scan of the collected files gave
    frame,          \* the rows of the frame returned, <<>> when None is returned
    loaded          \* the return value: "None" or "data"

cycVars == <<above, neutral, i, cycles, was_above, cpc, hist, returned>>

pairVars == <<data1, data2, thresholds, zero_threshold, ts_dtype1, ts_dtype2,
              ppc, exc, joined, deviation, stats>>

batchVars == <<exchanges, futures, collected, first_completed, exchange_data, loadCalls,
               exchange_pairs, results, analyzed, bpc>>

poolVars == <<taskq, worker, outq>>

accVars == <<successful, skipped, errors, processed_pairs, all_stats>>

runVars == <<discovered, exchanges_filter, symbols_to_analyze, disk, run_thresholds, tasks, total_pairs, poolVars, accVars,
             stats_df, cycles_sorted, rpc, taken, received>>

dirVars == <<exchange_exists, symbol_dirs, load_symbol>>

loadVars == <<dirVars, symbol_path, start_date, end_date, partitions, available_dates,
              visited, all_files, lpc, file_read, frame, loaded>>

vars == <<cycVars, pairVars, batchVars, runVars, loadVars>>

(***************************************************************************)
(* Bounds                                                                  *)
(***************************************************************************)
\* longest (above, neutral) input of the cycle scan
MaxRows == 5
\* most rows of the anchor series data1
MaxRows1 == 3
\* most rows of the series data2
MaxRows2 == 2
\* most exchanges of one symbol task; exchange names are 1..MaxExchanges, a
\* name's number being its rank in Python's string order
MaxExchanges == 3
\* calls of count_complete_cycles on one input
MaxCalls == 2
\* days of the month for which a date partition can exist
MaxDays == 3
\* most rows in the parquet files of one load
MaxFileRows == 2
\* symbols in the discovery map
MaxSymbols == 2
\* worker processes of the pool (n_workers)
MaxWorkers == 2

(***************************************************************************)
(* Values                                                                  *)
(***************************************************************************)

\* Python None passed as the thresholds argument.
ThresholdsNone == <<>>

\* Python None returned by analyze_pair_fast.
NoneResult == [kind |-> "None"]

\* A percentage num/den is the pair <<num, den>> with den > 0.
\* `thresholds = [0.3, 0.5, 0.4]`
DefaultThresholds == << <<3, 10>>, <<5, 10>>, <<4, 10>> >>

\* `zero_threshold: float = 0.05`
DefaultZeroThreshold == <<5, 100>>

\* the custom triple [0.1, 0.2, 0.3] of test_custom_thresholds
CustomThresholds == << <<1, 10>>, <<2, 10>>, <<3, 10>> >>

\* A custom triple whose third threshold is not its middle one.
WideThresholds == << <<1, 10>>, <<3, 10>>, <<6, 10>> >>

\* Bid prices of the inputs, in price ticks: 0 (an empty book side) and two
\* prices half a percent apart.
Prices == {0, 200, 201}

\* Timestamps of the inputs, in hours: an earlier and a later instant.
Timestamps == {1, 2}

Abs(x) == IF x < 0 THEN -x ELSE x

RECURSIVE GCD(_, _)
GCD(a, b) == IF b = 0 THEN a ELSE GCD(b, a % b)

\* A Float64 cell of a polars column is one of: null, NaN, +inf, or the exact
\* rational n/d in lowest terms (d > 0).  Rounding of finite values is not
\* modelled; negative prices do not occur, so -inf does not either.
NullV == [k |-> "null", n |-> 0, d |-> 1]
NaN == [k |-> "nan", n |-> 0, d |-> 1]
PInf == [k |-> "inf", n |-> 1, d |-> 1]
Fin(n, d) == LET g == GCD(Abs(n), d) IN [k |-> "fin", n |-> n \div g, d |-> d \div g]
Zero == Fin(0, 1)

\* a < b for two cells that are finite or +inf
Less(a, b) ==
    IF a.k = "inf" THEN FALSE
    ELSE IF b.k = "inf" THEN TRUE
    ELSE a.n * b.d < b.n * a.d

\* a + b for two finite cells
RatAdd(a, b) ==
    LET l == (a.d * b.d) \div GCD(a.d, b.d)
    IN  Fin(a.n * (l \div a.d) + b.n * (l \div b.d), l)

\* A tick series: rows (timestamp, bestBid) sorted ascending by timestamp, as
\* data_loader.py:120 leaves them.  bestAsk is carried by the code and never
\* read by the analysis; it is left out.
Tick == [timestamp : Timestamps, bestBid : Prices]

TickSeries(maxLen) ==
    UNION { { s \in [1..n -> Tick] :
                \A k \in 1..(n - 1) : s[k].timestamp <= s[k + 1].timestamp }
            : n \in 0..maxLen }

\* analyze_pair_fast before any call.
IdlePair ==
    /\ data1 = <<>>
    /\ data2 = <<>>
    /\ thresholds = ThresholdsNone
    /\ zero_threshold = DefaultZeroThreshold
    /\ ts_dtype1 = "datetime"
    /\ ts_dtype2 = "datetime"
    /\ ppc = "idle"
    /\ exc = "none"
    /\ joined = <<>>
    /\ deviation = <<>>
    /\ stats = NoneResult

\* analyze_symbol_batch before any call.
IdleBatch ==
    /\ exchanges = <<>>
    /\ futures = <<>>
    /\ collected = {}
    /\ first_completed = 0
    /\ exchange_data = <<>>
    /\ loadCalls = [e \in 1..MaxExchanges |-> 0]
    /\ exchange_pairs = <<>>
    /\ results = <<>>
    /\ analyzed = {}
    /\ bpc = "idle"

\* run_ultra_fast_analysis before any call.
IdleRun ==
    /\ discovered = <<>>
    /\ exchanges_filter = {}
    /\ symbols_to_analyze = <<>>
    /\ disk = <<>>
    /\ run_thresholds = ThresholdsNone
    /\ tasks = <<>>
    /\ total_pairs = 0
    /\ taskq = <<>>
    /\ worker = [w \in 1..MaxWorkers |-> 0]
    /\ outq = <<>>
    /\ successful = 0
    /\ skipped = 0
    /\ errors = 0
    /\ processed_pairs = 0
    /\ all_stats = <<>>
    /\ stats_df = <<>>
    /\ cycles_sorted = <<>>
    /\ rpc = "idle"
    /\ taken = <<>>
    /\ received = <<>>

\* No date given: None, or the empty string (both are falsy in `if start_date`).
NoDate == <<>>

\* No directory chosen: symbol_path is None.
NoPath == <<>>

\* Nothing read yet.
NotRead == [ok |-> TRUE, rows |-> <<>>]

\* load_exchange_symbol_data before any call.
IdleLoad ==
    /\ exchange_exists = FALSE
    /\ symbol_dirs = {}
    /\ load_symbol = <<>>
    /\ symbol_path = NoPath
    /\ file_read = NotRead
    /\ frame = <<>>
    /\ start_date = NoDate
    /\ end_date = NoDate
    /\ partitions = <<>>
    /\ available_dates = {}
    /\ visited = {}
    /\ all_files = {}
    /\ lpc = "idle"
    /\ loaded = "None"

(***************************************************************************)
(* count_complete_cycles                                                   *)
(***************************************************************************)

\* Mutant: was_above is not cleared when a cycle is counted.
RowStep_NoReset(st, a, n) ==
    IF a THEN [was_above |-> TRUE, cycles |-> st.cycles]
    ELSE IF n /\ st.was_above
         THEN [was_above |-> TRUE, cycles |-> st.cycles + 1]
         ELSE st

\* Mutant: any row below the threshold closes the excursion (neutral ignored).
RowStep_IgnoreNeutral(st, a, n) ==
    IF a THEN [was_above |-> TRUE, cycles |-> st.cycles]
    ELSE IF st.was_above
         THEN [was_above |-> FALSE, cycles |-> st.cycles + 1]
         ELSE st

\* Mutant: the neutral test comes before the above test.
RowStep_NeutralFirst(st, a, n) ==
    IF n /\ st.was_above
    THEN [was_above |-> FALSE, cycles |-> st.cycles + 1]
    ELSE IF a THEN [was_above |-> TRUE, cycles |-> st.cycles]
         ELSE st

\* Mutant: a row below the threshold and outside the neutral band disarms.
RowStep_DisarmBetween(st, a, n) ==
    IF a THEN [was_above |-> TRUE, cycles |-> st.cycles]
    ELSE IF n /\ st.was_above
         THEN [was_above |-> FALSE, cycles |-> st.cycles + 1]
         ELSE [was_above |-> FALSE, cycles |-> st.cycles]

\* Mutant: a neutral row counts a cycle whatever the state.
RowStep_CountIdle(st, a, n) ==
    IF a THEN [was_above |-> TRUE, cycles |-> st.cycles]
    ELSE IF n
         THEN [was_above |-> FALSE, cycles |-> st.cycles + 1]
         ELSE st

\* The body of the for loop for one row: `if above[i]: ... elif neutral[i] and
\* was_above: ...`; st is the pair of locals (was_above, cycles).
RowStep(st, a, n) ==
    IF a THEN [was_above |-> TRUE, cycles |-> st.cycles]
    ELSE IF n /\ st.was_above
         THEN [was_above |-> FALSE, cycles |-> st.cycles + 1]
         ELSE st

\* The state of the locals before the loop: cycles = 0, was_above = False.
ScanStart == [was_above |-> FALSE, cycles |-> 0]

\* The cycle scan before any call.
IdleCycles ==
    /\ above = <<>>
    /\ neutral = <<>>
    /\ i = 0
    /\ cycles = 0
    /\ was_above = FALSE
    /\ cpc = "idle"
    /\ hist = <<>>
    /\ returned = <<>>

InitCycles ==
    /\ IdleRun
    /\ IdlePair
    /\ IdleBatch
    /\ IdleLoad
    /\ \E n \in 0..MaxRows :
          /\ above \in [1..n -> BOOLEAN]
          /\ neutral \in [1..n -> BOOLEAN]
    /\ i = 0
    /\ cycles = ScanStart.cycles
    /\ was_above = ScanStart.was_above
    /\ cpc = "scan"
    /\ hist = <<>>
    /\ returned = <<>>

\* One iteration of `for i in range(len(above))`.
ScanRow ==
    /\ cpc = "scan"
    /\ i < Len(above)
    /\ LET st == RowStep([was_above |-> was_above, cycles |-> cycles],
                         above[i + 1], neutral[i + 1])
       IN  /\ was_above' = st.was_above
           /\ cycles' = st.cycles
           /\ hist' = Append(hist, st)
    /\ i' = i + 1
    /\ UNCHANGED <<above, neutral, cpc, returned>>
    /\ UNCHANGED <<pairVars, batchVars, runVars, loadVars>>

\* The loop is exhausted: `return cycles`.
ReturnCycles ==
    /\ cpc = "scan"
    /\ i = Len(above)
    /\ cpc' = "done"
    /\ returned' = Append(returned, cycles)
    /\ UNCHANGED <<above, neutral, i, cycles, was_above, hist>>
    /\ UNCHANGED <<pairVars, batchVars, runVars, loadVars>>

\* Mutant: was_above is kept from the previous call (a module-level flag).
CallAgain_KeepsState ==
    /\ cpc = "done"
    /\ Len(returned) < MaxCalls
    /\ i' = 0
    /\ cycles' = ScanStart.cycles
    /\ hist' = <<>>
    /\ cpc' = "scan"
    /\ UNCHANGED <<above, neutral, was_above, returned>>
    /\ UNCHANGED <<pairVars, batchVars, runVars, loadVars>>

\* count_complete_cycles is called again with the same two series: the
\* locals are created anew (`cycles = 0`, `was_above = False`, lines 31-32).
CallAgain ==
    /\ cpc = "done"
    /\ Len(returned) < MaxCalls
    /\ i' = 0
    /\ cycles' = ScanStart.cycles
    /\ was_above' = ScanStart.was_above
    /\ hist' = <<>>
    /\ cpc' = "scan"
    /\ UNCHANGED <<above, neutral, returned>>
    /\ UNCHANGED <<pairVars, batchVars, runVars, loadVars>>

NextCycles == ScanRow \/ ReturnCycles \/ CallAgain

SpecCycles == InitCycles /\ [][NextCycles]_vars

(***************************************************************************)
(* Claims about count_complete_cycles                                      *)
(***************************************************************************)

\* The two-state machine of the design: IDLE/ARMED over rows k..Len(a).
RECURSIVE MachineCount(_, _, _, _, _)
MachineCount(a, n, k, state, count) ==
    IF k > Len(a) THEN count
    ELSE IF a[k] THEN MachineCount(a, n, k + 1, "ARMED", count)
    ELSE IF n[k] /\ state = "ARMED" THEN MachineCount(a, n, k + 1, "IDLE", count + 1)
    ELSE MachineCount(a, n, k + 1, state, count)

\* The locals before row k was processed.
Before(k) == IF k = 1 THEN ScanStart ELSE hist[k - 1]

\* rows s..e are a maximal run of True in `above`
IsTrueRun(s, e) ==
    /\ 1 <= s /\ s <= e /\ e <= Len(above)
    /\ \A k \in s..e : above[k]
    /\ (s = 1 \/ ~above[s - 1])
    /\ (e = Len(above) \/ ~above[e + 1])

TrueRuns == Cardinality({s \in 1..Len(above) : above[s] /\ (s = 1 \/ ~above[s - 1])})

\* C1: the returned count is the count of the two-state machine that starts
\* IDLE, arms on a row with above true, and on a row with above false, neutral
\* true and state ARMED counts one cycle and returns to IDLE; in particular the
\* four scenarios give 1, 2, 0 and 0.
C1_MachineCount ==
    cpc = "done" =>
        /\ cycles = MachineCount(above, neutral, 1, "IDLE", 0)
        /\ (above = <<FALSE, TRUE, TRUE, FALSE>> /\ neutral = <<TRUE, FALSE, FALSE, TRUE>>
              => cycles = 1)
        /\ (above = <<FALSE, TRUE, FALSE, TRUE, FALSE>>
              /\ neutral = <<TRUE, FALSE, TRUE, FALSE, TRUE>> => cycles = 2)
        /\ (above = <<TRUE, TRUE, TRUE>> /\ neutral = <<FALSE, FALSE, FALSE>>
              => cycles = 0)
        /\ (above = <<FALSE, FALSE, FALSE>> /\ neutral = <<TRUE, TRUE, TRUE>>
              => cycles = 0)

C1_Witness ==
    /\ cpc = "done"
    /\ above = <<FALSE, TRUE, FALSE, TRUE, FALSE>>
    /\ neutral = <<TRUE, FALSE, TRUE, FALSE, TRUE>>
    /\ cycles = 2

\* C2: the returned count is at most the number of maximal runs of True in
\* above, and a run of True followed by no neutral row before the end of the
\* input leaves the count where it was before the run began.
C2_RunsBound ==
    cpc = "done" =>
        /\ cycles <= TrueRuns
        /\ \A s \in 1..Len(above) : \A e \in s..Len(above) :
              (IsTrueRun(s, e) /\ \A k \in (e + 1)..Len(above) : ~neutral[k])
                 => cycles = Before(s).cycles

\* a counted cycle, then a run that never returns to neutral
C2_Witness ==
    /\ cpc = "done"
    /\ cycles >= 1
    /\ \E s \in 2..Len(above) : \E e \in s..Len(above) :
          /\ IsTrueRun(s, e)
          /\ e < Len(above)
          /\ \A k \in (e + 1)..Len(above) : ~neutral[k]
          /\ Before(s).cycles = cycles

\* C3: a row with above true never completes a cycle, also when neutral is true
\* on that row: after it the machine is ARMED and the count is what it was.
C3_AboveWins ==
    \A k \in 1..i :
        above[k] => /\ hist[k].was_above
                    /\ hist[k].cycles = Before(k).cycles

\* a row with above and neutral both true met in state ARMED, and one met IDLE
C3_Witness ==
    /\ \E k \in 1..i :
          above[k] /\ neutral[k] /\ Before(k).was_above /\ hist[k].cycles = Before(k).cycles
    /\ \E k \in 1..i :
          above[k] /\ neutral[k] /\ ~Before(k).was_above /\ hist[k].was_above

\* rows s..e-1 lie between the neutral band and the threshold (above false,
\* neutral false) and row e is the next neutral row
BetweenThenNeutral(s, e) ==
    /\ \A k \in s..(e - 1) : ~above[k] /\ ~neutral[k]
    /\ ~above[e] /\ neutral[e]

\* C33 (as the specification states it, refuted): a row with above false and
\* neutral false leaves the state and the count unchanged, and every row with
\* neutral true met in state IDLE leaves both unchanged.
C33_NeutralIdleUnchanged ==
    \A k \in 1..i :
        /\ (~above[k] /\ ~neutral[k]) => hist[k] = Before(k)
        /\ (neutral[k] /\ ~Before(k).was_above) => hist[k] = Before(k)

\* C33 (amended): a row with above false and neutral false leaves the state
\* and the count unchanged; a row with above false and neutral true met in
\* state IDLE leaves both unchanged; an ARMED machine stays ARMED across any
\* number of rows between the neutral band and the threshold and completes
\* its cycle at the next neutral row.
C33_FrameOfRow ==
    /\ \A k \in 1..i :
          /\ (~above[k] /\ ~neutral[k]) => hist[k] = Before(k)
          /\ (~above[k] /\ neutral[k] /\ ~Before(k).was_above) => hist[k] = Before(k)
    /\ \A s \in 1..i : \A e \in s..i :
          (Before(s).was_above /\ BetweenThenNeutral(s, e))
             => /\ \A k \in s..(e - 1) : hist[k] = Before(s)
                /\ hist[e] = [was_above |-> FALSE, cycles |-> Before(s).cycles + 1]

\* an ARMED machine crossed two rows between band and threshold and counted
\* its cycle at the neutral row after them; an IDLE one met a neutral row
C33_Witness ==
    /\ \E s \in 1..i : \E e \in (s + 2)..i :
          /\ Before(s).was_above
          /\ BetweenThenNeutral(s, e)
          /\ hist[e].cycles = Before(s).cycles + 1
    /\ \E k \in 1..i : ~above[k] /\ neutral[k] /\ ~Before(k).was_above

\* the number of IDLE -> ARMED transitions made in rows 1..k
Arms(k) == Cardinality({j \in 1..k : above[j] /\ ~Before(j).was_above})

\* row k counted a cycle
Counted(k) == hist[k].cycles = Before(k).cycles + 1

\* C35: at every point of the scan the number of IDLE -> ARMED transitions
\* made so far minus the cycle count is 1 when the machine is ARMED and 0
\* when it is IDLE; the count never decreases and grows by at most one per
\* row; between two consecutive counted cycles there is a row with above
\* true.
C35_ArmsMinusCycles ==
    /\ Arms(i) - cycles = (IF was_above THEN 1 ELSE 0)
    /\ \A k \in 1..i :
          /\ Arms(k) - hist[k].cycles = (IF hist[k].was_above THEN 1 ELSE 0)
          /\ hist[k].cycles \in {Before(k).cycles, Before(k).cycles + 1}
    /\ \A a \in 1..i : \A b \in (a + 1)..i :
          (Counted(a) /\ Counted(b)) => \E m \in (a + 1)..(b - 1) : above[m]

\* two cycles counted and the machine armed a third time
C35_Witness ==
    /\ cycles = 2
    /\ was_above
    /\ Arms(i) = 3

\* every call made so far has returned the same count
SameReturns == \A a \in 1..Len(returned) : \A b \in 1..Len(returned) : returned[a] = returned[b]

\* a call starts with fresh locals, whatever the previous call left
FreshStart == (cpc = "scan" /\ i = 0) => (cycles = 0 /\ ~was_above)

\* C28: count_complete_cycles is idempotent under re-evaluation: every call on
\* the same (above, neutral) input returns the same count, a call starts from
\* fresh locals (nothing is carried over from the call before), and no step
\* changes the two input sequences.
C28_Idempotent ==
    /\ [](SameReturns /\ FreshStart)
    /\ [][above' = above /\ neutral' = neutral]_vars

\* the second call has returned the count of the first, which is positive, on
\* an input that ends in an open excursion
C28_Witness ==
    /\ cpc = "done"
    /\ Len(returned) = MaxCalls
    /\ returned[1] >= 1
    /\ returned[MaxCalls] = returned[1]
    /\ was_above


(***************************************************************************)
(* analyze_pair_fast                                                       *)
(***************************************************************************)

\* Mutant: forward strategy, the first right row at or after t.
AsofIndex_Forward(right, t) ==
    IF \E j \in 1..Len(right) : right[j].timestamp >= t
    THEN CHOOSE j \in 1..Len(right) :
            /\ right[j].timestamp >= t
            /\ \A m \in 1..(j - 1) : right[m].timestamp < t
    ELSE 0

\* Mutant: the match must be strictly earlier than t.
AsofIndex_Strict(right, t) ==
    IF \E j \in 1..Len(right) : right[j].timestamp < t
    THEN CHOOSE j \in 1..Len(right) :
            /\ right[j].timestamp < t
            /\ \A m \in (j + 1)..Len(right) : right[m].timestamp >= t
    ELSE 0

\* join_asof's default (backward) search over the sorted right frame: the
\* cursor advances while the next right key is <= t.
RECURSIVE AsofScan(_, _, _)
AsofScan(right, t, j) ==
    IF j < Len(right) /\ right[j + 1].timestamp <= t
    THEN AsofScan(right, t, j + 1)
    ELSE j

\* The right row matched with left key t; 0 when there is none.
AsofIndex(right, t) == AsofScan(right, t, 0)

\* Mutant: an inner join; the anchor rows that match nothing are dropped.
JoinAsof_DropUnmatched(left, right) ==
    SelectSeq([k \in 1..Len(left) |->
                  LET j == AsofIndex(right, left[k].timestamp)
                  IN  [timestamp |-> left[k].timestamp,
                       bid_ex1 |-> left[k].bestBid,
                       row2 |-> j,
                       bid_ex2 |-> IF j = 0 THEN NullV ELSE Fin(right[j].bestBid, 1)]],
              LAMBDA r : r.row2 # 0)

\* Mutant: the columns of the two inputs are renamed in place.
InputsAfter_RenamedInPlace(d1, d2) ==
    << [k \in 1..Len(d1) |-> [timestamp |-> d1[k].timestamp, bid_ex1 |-> d1[k].bestBid]],
       [k \in 1..Len(d2) |-> [timestamp |-> d2[k].timestamp, bid_ex2 |-> d2[k].bestBid]] >>

\* The two input frames after a call of analyze_pair_fast: rename, join_asof
\* and with_columns each return a new frame (lines 87-114), and nothing else
\* is done to data1 and data2.
InputsAfter(d1, d2) == <<d1, d2>>

\* data1.rename(...).join_asof(data2.rename(...), on='timestamp'): one row per
\* row of data1, in its order; bid_ex2 is null where nothing matched.  row2 is
\* the matched row of data2 (0: none); the frame itself does not hold it.
JoinAsof(left, right) ==
    [k \in 1..Len(left) |->
        LET j == AsofIndex(right, left[k].timestamp)
        IN  [timestamp |-> left[k].timestamp,
             bid_ex1 |-> left[k].bestBid,
             row2 |-> j,
             bid_ex2 |-> IF j = 0 THEN NullV ELSE Fin(right[j].bestBid, 1)]]

\* Mutant: an unmatched anchor row is given the ratio 1 (fill_null before
\* the division) instead of null.
Ratio_FillNull(b1, v2) ==
    IF v2.k = "null" THEN Fin(1, 1)
    ELSE IF v2.n = 0 THEN (IF b1 = 0 THEN NaN ELSE PInf)
    ELSE Fin(b1, v2.n)

\* pl.col('bid_ex1') / pl.col('bid_ex2') on Float64: x/0 is +inf, 0/0 is NaN.
Ratio(b1, v2) ==
    IF v2.k = "null" THEN NullV
    ELSE IF v2.n = 0 THEN (IF b1 = 0 THEN NaN ELSE PInf)
    ELSE Fin(b1, v2.n)

\* Mutant: deviation from a reference ratio other than 1.0 (here 201/200, as the
\* mean of the ratio column would be for a series trading at a premium).
DeviationOf_FromMean(r) ==
    IF r.k = "fin" THEN Fin(100 * (200 * r.n - 201 * r.d), 200 * r.d) ELSE r

\* (ratio - 1.0) / 1.0 * 100
DeviationOf(r) ==
    IF r.k = "fin" THEN Fin(100 * (r.n - r.d), r.d) ELSE r

DeviationColumn(j) ==
    [k \in 1..Len(j) |-> DeviationOf(Ratio(j[k].bid_ex1, j[k].bid_ex2))]

NonNull(col) == {k \in 1..Len(col) : col[k].k # "null"}

\* Series.max(): nulls are skipped, NaN is skipped unless nothing else is
\* there, and the maximum of nothing is None.
ColMax(col) ==
    LET num == {k \in NonNull(col) : col[k].k # "nan"}
    IN  IF NonNull(col) = {} THEN NullV
        ELSE IF num = {} THEN NaN
        ELSE col[CHOOSE k \in num : \A m \in num : ~Less(col[k], col[m])]

\* Series.min()
ColMin(col) ==
    LET num == {k \in NonNull(col) : col[k].k # "nan"}
    IN  IF NonNull(col) = {} THEN NullV
        ELSE IF num = {} THEN NaN
        ELSE col[CHOOSE k \in num : \A m \in num : ~Less(col[m], col[k])]

RECURSIVE ColSum(_, _)
ColSum(col, k) ==
    IF k = 0 THEN Zero
    ELSE IF col[k].k = "fin" THEN RatAdd(ColSum(col, k - 1), col[k])
    ELSE ColSum(col, k - 1)

\* Series.mean(): over the non-null cells; NaN poisons the sum, +inf dominates it.
ColMean(col) ==
    IF NonNull(col) = {} THEN NullV
    ELSE IF \E k \in NonNull(col) : col[k].k = "nan" THEN NaN
    ELSE IF \E k \in NonNull(col) : col[k].k = "inf" THEN PInf
    ELSE LET sum == ColSum(col, Len(col))
         IN  Fin(sum.n, sum.d * Cardinality(NonNull(col)))

\* Mutant: the sign of 0 is -1.
SignOf_ZeroIsNegative(v) ==
    IF v.k = "inf" THEN 1
    ELSE IF v.n > 0 THEN 1 ELSE -1

\* Expr.sign() of a cell that is neither null nor NaN
SignOf(v) ==
    IF v.k = "inf" THEN 1
    ELSE IF v.n > 0 THEN 1 ELSE IF v.n < 0 THEN -1 ELSE 0

\* Mutant: a crossing is any change of sign from the previous row.
Crossed_SignDiffers(col, k) ==
    IF k = 1 THEN "null"
    ELSE IF col[k].k = "null" \/ col[k - 1].k = "null" THEN "null"
    ELSE IF col[k].k = "nan" \/ col[k - 1].k = "nan" THEN "false"
    ELSE IF SignOf(col[k]) # SignOf(col[k - 1]) THEN "true" ELSE "false"

\* Mutant: the missing predecessor of the first row is filled with the sign of
\* the last row (a rolling shift).
Crossed_Wrap(col, k) ==
    LET p == IF k = 1 THEN Len(col) ELSE k - 1
    IN  IF col[k].k = "null" \/ col[p].k = "null" THEN "null"
        ELSE IF col[k].k = "nan" \/ col[p].k = "nan" THEN "false"
        ELSE IF SignOf(col[k]) * SignOf(col[p]) < 0 THEN "true" ELSE "false"

\* Cell k of the Boolean column (deviation_sign * deviation_sign.shift(1) < 0):
\* shift(1) leaves the first row null, null propagates, and a product with NaN
\* is NaN, which is not < 0.
Crossed(col, k) ==
    IF k = 1 THEN "null"
    ELSE IF col[k].k = "null" \/ col[k - 1].k = "null" THEN "null"
    ELSE IF col[k].k = "nan" \/ col[k - 1].k = "nan" THEN "false"
    ELSE IF SignOf(col[k]) * SignOf(col[k - 1]) < 0 THEN "true" ELSE "false"

\* int(...['crossed'].sum()): the true cells; nulls are skipped.
ZeroCrossings(col) == Cardinality({k \in 1..Len(col) : Crossed(col, k) = "true"})

\* Mutant: the threshold is compared with the signed deviation.
AboveFlag_Signed(v, t, nanGreatest) ==
    IF v.k = "null" THEN "null"
    ELSE IF v.k = "nan" THEN (IF nanGreatest THEN "true" ELSE "false")
    ELSE IF v.k = "inf" THEN "true"
    ELSE IF v.n * t[2] > t[1] * v.d THEN "true" ELSE "false"

\* Mutant: the comparison with the threshold is turned round.
AboveFlag_Below(v, t, nanGreatest) ==
    IF v.k = "null" THEN "null"
    ELSE IF v.k = "nan" THEN (IF nanGreatest THEN "true" ELSE "false")
    ELSE IF v.k = "inf" THEN "false"
    ELSE IF Abs(v.n) * t[2] < t[1] * v.d THEN "true" ELSE "false"

\* Cell of (pl.col('deviation').abs() > t).  nanGreatest: whether the polars
\* build orders NaN above every number in comparisons (it does since the
\* total-order change) or compares it false (IEEE).
AboveFlag(v, t, nanGreatest) ==
    IF v.k = "null" THEN "null"
    ELSE IF v.k = "nan" THEN (IF nanGreatest THEN "true" ELSE "false")
    ELSE IF v.k = "inf" THEN "true"
    ELSE IF Abs(v.n) * t[2] > t[1] * v.d THEN "true" ELSE "false"

\* Cell of (pl.col('deviation').abs() < zero_threshold)
NeutralFlag(v, z) ==
    IF v.k = "null" THEN "null"
    ELSE IF v.k = "nan" \/ v.k = "inf" THEN "false"
    ELSE IF Abs(v.n) * z[2] < z[1] * v.d THEN "true" ELSE "false"

\* Mutant: a null cell of a flag column counts as true in the scan.
Truthy_NullIsTrue(c) == c # "false"

\* `if above[i]` on the object array to_numpy() gives for a Boolean column with
\* nulls: None is falsy.
Truthy(c) == c = "true"

RECURSIVE CycleFold(_, _, _, _)
CycleFold(a, n, k, st) ==
    IF k > Len(a) THEN st.cycles
    ELSE CycleFold(a, n, k + 1, RowStep(st, Truthy(a[k]), Truthy(n[k])))

\* count_complete_cycles as a function of two Boolean columns
CountCompleteCycles(a, n) == CycleFold(a, n, 1, ScanStart)

\* float(col.mean() * 100) of a Boolean column
PctTrue(col) ==
    LET nn == {k \in 1..Len(col) : col[k] # "null"}
    IN  IF nn = {} THEN NullV
        ELSE Fin(100 * Cardinality({k \in nn : col[k] = "true"}), Cardinality(nn))

\* Mutant: the comparison with the threshold is not strict.
PatternBreak_AtLeast(v, t) ==
    IF v.k = "nan" THEN FALSE
    ELSE IF v.k = "inf" THEN TRUE
    ELSE Abs(v.n) * t[2] >= t[1] * v.d

\* abs(last_deviation) > t on Python floats: NaN compares false.
PatternBreak(v, t) ==
    IF v.k = "nan" THEN FALSE
    ELSE IF v.k = "inf" THEN TRUE
    ELSE Abs(v.n) * t[2] > t[1] * v.d

SetMax(S) == CHOOSE x \in S : \A y \in S : y <= x
SetMin(S) == CHOOSE x \in S : \A y \in S : x <= y

\* Mutant: the rates are divided by duration_hours without the
\* `if duration_hours > 0` guard; the ZeroDivisionError of a zero duration is
\* caught at line 239 and gives None.
AnalyzePairFast_Unguarded(d1, d2, th, z, nanGreatest) ==
    LET j == JoinAsof(d1, d2)
        dev == DeviationColumn(j)
        ts == {j[k].timestamp : k \in 1..Len(j)}
        t == IF th = ThresholdsNone THEN DefaultThresholds ELSE th
        aboveCol(x) == [k \in 1..Len(j) |-> AboveFlag(dev[k], t[x], nanGreatest)]
        neutralCol == [k \in 1..Len(j) |-> NeutralFlag(dev[k], z)]
    IN  IF Len(j) = 0 THEN NoneResult
        ELSE IF NonNull(dev) = {} THEN NoneResult
        ELSE IF SetMax(ts) = SetMin(ts) THEN NoneResult
        ELSE
        LET zc == ZeroCrossings(dev)
            duration_hours == SetMax(ts) - SetMin(ts)
            cyc == [x \in 1..3 |-> CountCompleteCycles(aboveCol(x), neutralCol)]
            pct == [x \in 1..3 |-> PctTrue(aboveCol(x))]
        IN  [kind |-> "record",
             max_deviation_pct |-> ColMax(dev),
             min_deviation_pct |-> ColMin(dev),
             deviation_asymmetry |-> ColMean(dev),
             zero_crossings |-> zc,
             zero_crossings_per_hour |->
                 IF duration_hours > 0 THEN Fin(zc, duration_hours) ELSE Zero,
             zero_crossings_per_minute |->
                 IF duration_hours > 0 THEN Fin(zc, duration_hours * 60) ELSE Zero,
             opportunity_cycles |-> cyc,
             cycles_per_hour |->
                 [x \in 1..3 |-> IF duration_hours > 0
                                 THEN Fin(cyc[x], duration_hours) ELSE Zero],
             pct_time_above |-> pct,
             avg_cycle_duration_sec |->
                 [x \in 1..3 |-> IF cyc[x] > 0
                                 THEN Fin(duration_hours * pct[x].n * 36, pct[x].d * cyc[x])
                                 ELSE Zero],
             pattern_break |-> [x \in 1..3 |-> PatternBreak(dev[Len(dev)], t[x])],
             data_points |-> Len(j),
             duration_hours |-> duration_hours]

\* The body of analyze_pair_fast.  Every exception is caught at line 239 and
\* turned into None: here float(None), raised at line 117 when no row has a
\* deviation.
AnalyzePairFast(d1, d2, th, z, nanGreatest) ==
    LET j == JoinAsof(d1, d2)
        dev == DeviationColumn(j)
        ts == {j[k].timestamp : k \in 1..Len(j)}
        t == IF th = ThresholdsNone THEN DefaultThresholds ELSE th
        aboveCol(x) == [k \in 1..Len(j) |-> AboveFlag(dev[k], t[x], nanGreatest)]
        neutralCol == [k \in 1..Len(j) |-> NeutralFlag(dev[k], z)]
    IN  IF Len(j) = 0 THEN NoneResult
        ELSE IF NonNull(dev) = {} THEN NoneResult
        ELSE
        LET zc == ZeroCrossings(dev)
            duration_hours == SetMax(ts) - SetMin(ts)
            cyc == [x \in 1..3 |-> CountCompleteCycles(aboveCol(x), neutralCol)]
            pct == [x \in 1..3 |-> PctTrue(aboveCol(x))]
        IN  [kind |-> "record",
             max_deviation_pct |-> ColMax(dev),
             min_deviation_pct |-> ColMin(dev),
             deviation_asymmetry |-> ColMean(dev),
             zero_crossings |-> zc,
             zero_crossings_per_hour |->
                 IF duration_hours > 0 THEN Fin(zc, duration_hours) ELSE Zero,
             zero_crossings_per_minute |->
                 IF duration_hours > 0 THEN Fin(zc, duration_hours * 60) ELSE Zero,
             opportunity_cycles |-> cyc,
             cycles_per_hour |->
                 [x \in 1..3 |-> IF duration_hours > 0
                                 THEN Fin(cyc[x], duration_hours) ELSE Zero],
             pct_time_above |-> pct,
             avg_cycle_duration_sec |->
                 [x \in 1..3 |-> IF cyc[x] > 0
                                 THEN Fin(duration_hours * pct[x].n * 36, pct[x].d * cyc[x])
                                 ELSE Zero],
             pattern_break |-> [x \in 1..3 |-> PatternBreak(dev[Len(dev)], t[x])],
             data_points |-> Len(j),
             duration_hours |-> duration_hours]

\* The dtypes a loaded timestamp column can have: the loader selects the
\* column and never casts it (data_loader.py:103-120), so an epoch-integer
\* column of a parquet file reaches the analysis as it is.
TsDtypes == {"datetime", "int"}

\* The exception the try block of analyze_pair_fast raises, "none" when it
\* runs to a return.  join_asof refuses join keys of different dtypes (line
\* 88); float(None) raises TypeError when no row has a deviation (line 117);
\* the difference of two integer timestamps has no total_seconds (line 142).
PairException(d1, d2, ty1, ty2) ==
    IF ty1 # ty2 THEN "ComputeError"
    ELSE LET j == JoinAsof(d1, d2)
         IN  IF Len(j) = 0 THEN "none"
             ELSE IF NonNull(DeviationColumn(j)) = {} THEN "TypeError"
             ELSE IF ty1 # "datetime" THEN "AttributeError"
             ELSE "none"

\* A handler that lets every exception but ValueError through.
Catches_ValueErrorOnly(e) == e = "ValueError"

\* `except Exception` (line 239): every exception of the try block is caught.
Catches(e) == TRUE

\* One call of analyze_pair_fast as its caller sees it: the exception raised
\* inside, whether it left the function, and the return value (None after a
\* caught exception, lines 239-243).
CallAnalyzePairFast(d1, d2, ty1, ty2, th, z, nanGreatest) ==
    LET e == PairException(d1, d2, ty1, ty2)
    IN  [exc |-> e,
         propagated |-> e # "none" /\ ~Catches(e),
         value |-> IF e = "none" THEN AnalyzePairFast(d1, d2, th, z, nanGreatest)
                   ELSE NoneResult]

\* The series of test_zero_crossings_detected, n samples one time step apart,
\* on the price scale of the model (200 for the test's 100): exchange 1's bid
\* is 0.5% above 200 on the samples 0, 2, 4, ... and 0.5% below on the others;
\* exchange 2's bid is 200 throughout.
OscillatingSeries(n) ==
    [k \in 1..n |-> [timestamp |-> k, bestBid |-> IF k % 2 = 1 THEN 201 ELSE 199]]

ConstantSeries(n) == [k \in 1..n |-> [timestamp |-> k, bestBid |-> 200]]

InitPair ==
    /\ IdleRun
    /\ IdleCycles
    /\ IdleBatch
    /\ IdleLoad
    /\ \/ /\ data1 \in TickSeries(MaxRows1)
          /\ data2 \in TickSeries(MaxRows2)
          /\ thresholds \in {ThresholdsNone, CustomThresholds}
          /\ ts_dtype1 = "datetime"
          /\ ts_dtype2 = "datetime"
       \/ /\ data1 \in TickSeries(MaxRows2)
          /\ data2 \in TickSeries(1)
          /\ thresholds = ThresholdsNone
          /\ \E ty \in (TsDtypes \X TsDtypes) \ {<<"datetime", "datetime">>} :
                /\ ts_dtype1 = ty[1]
                /\ ts_dtype2 = ty[2]
       \/ /\ data1 \in TickSeries(MaxRows1)
          /\ data2 \in TickSeries(1)
          /\ thresholds = WideThresholds
          /\ ts_dtype1 = "datetime"
          /\ ts_dtype2 = "datetime"
       \/ /\ \E n \in 2..MaxRows :
                /\ data1 = OscillatingSeries(n)
                /\ data2 = ConstantSeries(n)
          /\ thresholds = ThresholdsNone
          /\ ts_dtype1 = "datetime"
          /\ ts_dtype2 = "datetime"
    /\ zero_threshold = DefaultZeroThreshold
    /\ ppc = "call"
    /\ exc = "none"
    /\ joined = <<>>
    /\ deviation = <<>>
    /\ stats = NoneResult

\* One call of analyze_pair_fast, to its return.
AnalyzePair ==
    /\ ppc = "call"
    /\ \E nanGreatest \in BOOLEAN :
          \E call \in {CallAnalyzePairFast(data1, data2, ts_dtype1, ts_dtype2,
                                            thresholds, zero_threshold, nanGreatest)} :
              /\ stats' = call.value
              /\ exc' = call.exc
              /\ ppc' = IF call.propagated THEN "raised" ELSE "returned"
    /\ joined' = IF ts_dtype1 = ts_dtype2 THEN JoinAsof(data1, data2) ELSE <<>>
    /\ deviation' = DeviationColumn(joined')
    /\ data1' = InputsAfter(data1, data2)[1]
    /\ data2' = InputsAfter(data1, data2)[2]
    /\ UNCHANGED <<thresholds, zero_threshold, ts_dtype1, ts_dtype2>>
    /\ UNCHANGED <<cycVars, batchVars, runVars, loadVars>>

NextPair == AnalyzePair

SpecPair == InitPair /\ [][NextPair]_vars

(***************************************************************************)
(* Claims about analyze_pair_fast                                          *)
(***************************************************************************)

Returned == ppc = "returned"

Pos(v) == v.k = "inf" \/ (v.k = "fin" /\ v.n > 0)
Neg(v) == v.k = "fin" /\ v.n < 0

\* the deviations of two adjacent rows are both nonzero and of opposite sign
Opposite(a, b) == (Pos(a) /\ Neg(b)) \/ (Neg(a) /\ Pos(b))

\* the sequence without its row k
RemoveAt(col, k) == [m \in 1..(Len(col) - 1) |-> IF m < k THEN col[m] ELSE col[m + 1]]

\* C4: every anchor row with timestamp t is paired with the series-2 row of
\* greatest timestamp <= t (none, when series 2 has no such row), and never
\* with a row whose timestamp is greater than t.
C4_NoLookAhead ==
    Returned =>
        \A k \in 1..Len(joined) :
            LET t == data1[k].timestamp
                r == joined[k].row2
            IN  /\ joined[k].timestamp = t
                /\ r \in 0..Len(data2)
                /\ r = 0 => /\ \A m \in 1..Len(data2) : data2[m].timestamp > t
                            /\ joined[k].bid_ex2 = NullV
                /\ r > 0 => /\ data2[r].timestamp <= t
                            /\ \A m \in 1..Len(data2) :
                                  data2[m].timestamp <= t
                                     => data2[m].timestamp <= data2[r].timestamp
                            /\ joined[k].bid_ex2 = Fin(data2[r].bestBid, 1)

\* an anchor row matched although series 2 has a later row, and an anchor row
\* matched with the later of two earlier rows
C4_Witness ==
    /\ Returned
    /\ \E k \in 1..Len(joined) :
          /\ joined[k].row2 > 0
          /\ \E m \in 1..Len(data2) : data2[m].timestamp > joined[k].timestamp
    /\ \E k \in 1..Len(joined) :
          /\ joined[k].row2 > 0
          /\ \E m \in 1..Len(data2) :
                data2[m].timestamp < data2[joined[k].row2].timestamp

\* every synchronized row has a series-2 bid equal to its series-1 bid
AtParity ==
    /\ Len(joined) > 0
    /\ \A k \in 1..Len(joined) : joined[k].bid_ex2 = Fin(joined[k].bid_ex1, 1)

ParityMetricsZero ==
    /\ \A k \in 1..Len(deviation) : deviation[k] = Zero
    /\ stats.kind = "record"
    /\ stats.max_deviation_pct = Zero
    /\ stats.min_deviation_pct = Zero
    /\ stats.deviation_asymmetry = Zero
    /\ stats.zero_crossings = 0
    /\ \A x \in 1..3 : stats.opportunity_cycles[x] = 0

\* C5: when bid_ex1 equals bid_ex2 on every synchronized row (of a call that
\* raised nothing), every deviation is 0, so max, min and asymmetry are 0, zero_crossings is 0 and every
\* threshold's cycle count is 0.
C5_ParityZero == (Returned /\ exc = "none" /\ AtParity) => ParityMetricsZero

\* What holds of the code: the same, for rows whose common bid is not zero.
C5_ParityZeroNonzeroBids ==
    (Returned /\ exc = "none" /\ AtParity
        /\ \A k \in 1..Len(joined) : joined[k].bid_ex1 # 0)
        => ParityMetricsZero

\* C6: zero_crossings is the number of rows after the first whose deviation
\* and whose predecessor's deviation are nonzero and of opposite sign; it is
\* at most data_points - 1.
C6_ZeroCrossings ==
    (Returned /\ stats.kind = "record") =>
        /\ stats.zero_crossings =
              Cardinality({k \in 2..Len(deviation) :
                              Opposite(deviation[k], deviation[k - 1])})
        /\ stats.zero_crossings <= stats.data_points - 1

\* a series that flips sign on each of its rows after the first
C6_Witness ==
    /\ Returned
    /\ stats.kind = "record"
    /\ stats.data_points >= 3
    /\ stats.zero_crossings = stats.data_points - 1

\* row k is exactly 0 between two neighbours of the same sign
ZeroBetweenSameSign(col, k) ==
    /\ 1 < k /\ k < Len(col)
    /\ col[k] = Zero
    /\ \/ Pos(col[k - 1]) /\ Pos(col[k + 1])
       \/ Neg(col[k - 1]) /\ Neg(col[k + 1])

\* C7: a deviation that is exactly 0 between two neighbours of the same sign
\* adds no crossing: zero_crossings is that of the series without the row.
C7_NoDoubleCount ==
    (Returned /\ stats.kind = "record") =>
        \A k \in 1..Len(deviation) :
            ZeroBetweenSameSign(deviation, k)
                => stats.zero_crossings = ZeroCrossings(RemoveAt(deviation, k))

C7_Witness ==
    /\ Returned
    /\ stats.kind = "record"
    /\ \E k \in 1..Len(deviation) :
          /\ ZeroBetweenSameSign(deviation, k)
          /\ Neg(deviation[k - 1])
          /\ stats.zero_crossings = 0

\* rows s..e are exactly 0 and lie between a row of one sign and a row of the
\* other
ZerosBetweenOpposite(col, s, e) ==
    /\ 1 < s /\ s <= e /\ e < Len(col)
    /\ \A k \in s..e : col[k] = Zero
    /\ \/ Pos(col[s - 1]) /\ Neg(col[e + 1])
       \/ Neg(col[s - 1]) /\ Pos(col[e + 1])

\* C37: a change of sign that passes through one or more rows with deviation
\* exactly 0 is no zero crossing: none of the rows from the first zero to the
\* row after the last is a crossing, so zero_crossings is the number of
\* crossings before the zeros plus the number after them; only adjacent rows
\* that are both nonzero and of opposite sign are counted.
C37_ThroughZeroNotCounted ==
    (Returned /\ stats.kind = "record") =>
        /\ \A s \in 1..Len(deviation) : \A e \in s..Len(deviation) :
              ZerosBetweenOpposite(deviation, s, e)
                 => /\ \A k \in s..(e + 1) : Crossed(deviation, k) # "true"
                    /\ stats.zero_crossings =
                          ZeroCrossings(SubSeq(deviation, 1, s - 1))
                          + ZeroCrossings(SubSeq(deviation, e + 1, Len(deviation)))
        /\ \A k \in 2..Len(deviation) :
              Crossed(deviation, k) = "true"
                 => (deviation[k] # Zero /\ deviation[k - 1] # Zero)

\* the deviation goes +, 0, - and no crossing is counted
C37_Witness ==
    /\ Returned
    /\ stats.kind = "record"
    /\ Len(deviation) = 3
    /\ Pos(deviation[1]) /\ deviation[2] = Zero /\ Neg(deviation[3])
    /\ stats.zero_crossings = 0

\* a <= b for two thresholds, each a fraction <<numerator, denominator>>
AtMost(a, b) == a[1] * b[2] <= b[1] * a[2]

\* the triple the call works with (lines 155-156)
UsedThresholds == IF thresholds = ThresholdsNone THEN DefaultThresholds ELSE thresholds

\* C36: for one deviation series and one neutral threshold z, and any two
\* thresholds ta <= tb of the triple that are both at least z, the cycle
\* count of tb is at most that of ta, pct_time_above of tb is at most that of
\* ta, and pattern_break of tb implies pattern_break of ta.
C36_ThresholdMonotone ==
    (Returned /\ stats.kind = "record") =>
        \A a \in 1..3 : \A b \in 1..3 :
            (/\ AtMost(UsedThresholds[a], UsedThresholds[b])
             /\ AtMost(zero_threshold, UsedThresholds[a]))
               => /\ stats.opportunity_cycles[b] <= stats.opportunity_cycles[a]
                  /\ ~Less(stats.pct_time_above[a], stats.pct_time_above[b])
                  /\ stats.pattern_break[b] => stats.pattern_break[a]

\* the lowest threshold counts a cycle the highest does not, is exceeded on
\* more rows, and is exceeded on the last row where the highest is not
C36_Witness ==
    /\ Returned
    /\ stats.kind = "record"
    /\ thresholds = WideThresholds
    /\ stats.opportunity_cycles[3] < stats.opportunity_cycles[1]
    /\ Less(stats.pct_time_above[3], stats.pct_time_above[1])
    /\ stats.pattern_break[1] /\ ~stats.pattern_break[3]

\* The call is over: the function returned, or an exception left it.
CallOver == ppc \in {"returned", "raised"}

\* C13: analyze_pair_fast never lets an exception reach its caller: the call
\* always ends in a return, and whenever the synchronization (join_asof) or the
\* metric computation raised, the value returned is None.
C13_NeverPropagates ==
    /\ ppc # "raised"
    /\ (CallOver /\ exc # "none") => (Returned /\ stats = NoneResult)

\* Two series with integer timestamps that overlap: the join and the
\* deviation statistics succeed, the duration computation raises.
C13_Witness ==
    /\ Returned
    /\ exc = "AttributeError"
    /\ NonNull(deviation) # {}
    /\ stats = NoneResult

\* C14: when series 1 is empty, series 2 is empty, or both are, the call
\* returns None and raises nothing to its caller.
C14_EmptyGivesNone ==
    (CallOver /\ (data1 = <<>> \/ data2 = <<>>)) => (Returned /\ stats = NoneResult)

\* Series 1 has rows and series 2 has none: every anchor row is unmatched.
C14_Witness ==
    /\ Returned
    /\ data1 # <<>>
    /\ data2 = <<>>
    /\ Len(joined) = Len(data1)
    /\ stats = NoneResult
\* a synchronized row whose series-2 bid is zero
ZeroBid(k) == joined[k].bid_ex2 = Zero

\* The deviation column with the cells of the zero-bid rows blanked.
DefinedDeviation ==
    [k \in 1..Len(deviation) |-> IF ZeroBid(k) THEN NullV ELSE deviation[k]]

\* C22: a synchronized row whose bid_ex2 is zero is excluded from
\* max_deviation_pct, min_deviation_pct, deviation_asymmetry and the
\* above-threshold flags; the other rows are still analyzed and a metric
\* record is produced.
C22_ZeroBidExcluded ==
    (Returned /\ exc = "none"
        /\ (\E k \in 1..Len(joined) : ZeroBid(k))
        /\ NonNull(DefinedDeviation) # {})
        => LET t == IF thresholds = ThresholdsNone THEN DefaultThresholds ELSE thresholds
           IN  /\ stats.kind = "record"
               /\ stats.max_deviation_pct = ColMax(DefinedDeviation)
               /\ stats.min_deviation_pct = ColMin(DefinedDeviation)
               /\ stats.deviation_asymmetry = ColMean(DefinedDeviation)
               /\ \A x \in 1..3 :
                     stats.pct_time_above[x] =
                         PctTrue([k \in 1..Len(deviation) |->
                                     AboveFlag(DefinedDeviation[k], t[x], TRUE)])

\* an anchor row with no series-2 observation at or before its timestamp
Unmatched(k) == joined[k].row2 = 0

\* The cells of a column of the synchronized series at the matched rows, from
\* row k on.
RECURSIVE KeepMatched(_, _)
KeepMatched(col, k) ==
    IF k > Len(col) THEN <<>>
    ELSE (IF Unmatched(k) THEN <<>> ELSE <<col[k]>>) \o KeepMatched(col, k + 1)

\* C23: an anchor row without a series-2 observation at or before its
\* timestamp has a null deviation, is neither an 'above' row nor a 'neutral'
\* row for the cycle machine, and contributes to none of max_deviation_pct,
\* min_deviation_pct, deviation_asymmetry, zero_crossings, pct_time_above and
\* the cycle counts: they are what the matched rows alone give.
C23_UnmatchedContributesNothing ==
    (Returned /\ exc = "none" /\ stats.kind = "record") =>
        LET dev == KeepMatched(deviation, 1)
            t == IF thresholds = ThresholdsNone THEN DefaultThresholds ELSE thresholds
            aboveCol(x, ng) == [k \in 1..Len(dev) |-> AboveFlag(dev[k], t[x], ng)]
            neutralCol == [k \in 1..Len(dev) |-> NeutralFlag(dev[k], zero_threshold)]
        IN  /\ \A k \in 1..Len(joined) :
                  Unmatched(k) =>
                      /\ deviation[k] = NullV
                      /\ ~Truthy(NeutralFlag(deviation[k], zero_threshold))
                      /\ \A x \in 1..3 : \A ng \in BOOLEAN :
                            ~Truthy(AboveFlag(deviation[k], t[x], ng))
            /\ stats.max_deviation_pct = ColMax(dev)
            /\ stats.min_deviation_pct = ColMin(dev)
            /\ stats.deviation_asymmetry = ColMean(dev)
            /\ stats.zero_crossings = ZeroCrossings(dev)
            /\ \E ng \in BOOLEAN : \A x \in 1..3 :
                  /\ stats.pct_time_above[x] = PctTrue(aboveCol(x, ng))
                  /\ stats.opportunity_cycles[x] =
                         CountCompleteCycles(aboveCol(x, ng), neutralCol)

\* a record was returned for a series whose first anchor row is unmatched and
\* whose matched rows are all above the first threshold
C23_Witness ==
    /\ Returned
    /\ stats.kind = "record"
    /\ stats.data_points >= 2
    /\ Unmatched(1)
    /\ stats.pct_time_above[1] = Fin(100, 1)

\* C24: the synchronized series has exactly one row per row of series 1, with
\* that row's timestamp and bid, in the anchor's non-decreasing timestamp
\* order; a metric record's data_points is the number of rows of series 1,
\* the unmatched anchor rows included.
C24_OneRowPerAnchor ==
    (Returned /\ exc = "none") =>
        /\ Len(joined) = Len(data1)
        /\ \A k \in 1..Len(joined) :
              /\ joined[k].timestamp = data1[k].timestamp
              /\ joined[k].bid_ex1 = data1[k].bestBid
        /\ \A k \in 1..(Len(joined) - 1) : joined[k].timestamp <= joined[k + 1].timestamp
        /\ stats.kind = "record" => stats.data_points = Len(data1)

\* a record over three anchor rows, the first of them unmatched
C24_Witness ==
    /\ Returned
    /\ stats.kind = "record"
    /\ Len(data1) = MaxRows1
    /\ Unmatched(1)
    /\ ~Unmatched(Len(joined))
    /\ stats.data_points = MaxRows1

\* some anchor row found a series-2 observation
SomeMatched == \E k \in 1..Len(joined) : ~Unmatched(k)

\* the minimum and the maximum timestamp of the synchronized series are equal
ZeroDuration == \A k \in 1..Len(joined) : joined[k].timestamp = joined[1].timestamp

\* C25: no metric comes from a division by zero.  A call that has a matched
\* row returns a record; when the minimum and maximum timestamps are equal its
\* zero_crossings_per_hour, zero_crossings_per_minute and every
\* cycles_per_hour are 0; for a threshold whose cycle count is 0 its
\* avg_cycle_duration_sec is 0.
C25_NoDivisionByZero ==
    (Returned /\ exc = "none" /\ SomeMatched) =>
        /\ stats.kind = "record"
        /\ ZeroDuration =>
              /\ stats.duration_hours = 0
              /\ stats.zero_crossings_per_hour = Zero
              /\ stats.zero_crossings_per_minute = Zero
              /\ \A x \in 1..3 : stats.cycles_per_hour[x] = Zero
        /\ \A x \in 1..3 :
              stats.opportunity_cycles[x] = 0 => stats.avg_cycle_duration_sec[x] = Zero

\* a record over two rows of one timestamp, above the first threshold, with
\* no complete cycle
C25_Witness ==
    /\ Returned
    /\ stats.kind = "record"
    /\ Len(joined) >= 2
    /\ ZeroDuration
    /\ stats.opportunity_cycles[1] = 0
    /\ stats.pct_time_above[1] = Fin(100, 1)
    /\ stats.cycles_per_hour[1] = Zero

\* The state of the cycle machine after the rows k.. of the two flag columns.
RECURSIVE ScanEnd(_, _, _, _)
ScanEnd(a, n, k, st) ==
    IF k > Len(a) THEN st
    ELSE ScanEnd(a, n, k + 1, RowStep(st, Truthy(a[k]), Truthy(n[k])))

\* |v| > t for a deviation cell v and a threshold t
StrictlyAbove(v, t) ==
    \/ v.k = "inf"
    \/ v.k = "fin" /\ Abs(v.n) * t[2] > t[1] * v.d

\* C26: for each threshold, pattern_break is true if and only if the absolute
\* deviation of the last synchronized row is strictly greater than the
\* threshold; when it is true the cycle machine of that threshold ends its
\* scan armed.
C26_PatternBreak ==
    (Returned /\ exc = "none" /\ stats.kind = "record") =>
        LET t == IF thresholds = ThresholdsNone THEN DefaultThresholds ELSE thresholds
            last == deviation[Len(deviation)]
            aboveCol(x, ng) == [k \in 1..Len(deviation) |-> AboveFlag(deviation[k], t[x], ng)]
            neutralCol == [k \in 1..Len(deviation) |-> NeutralFlag(deviation[k], zero_threshold)]
        IN  \A x \in 1..3 :
               /\ stats.pattern_break[x] <=> StrictlyAbove(last, t[x])
               /\ stats.pattern_break[x] =>
                     \A ng \in BOOLEAN :
                        ScanEnd(aboveCol(x, ng), neutralCol, 1, ScanStart).was_above

\* the last of several rows deviates by 0.5: the flag is set for the
\* thresholds 0.3 and 0.4 and not for 0.5
C26_Witness ==
    /\ Returned
    /\ stats.kind = "record"
    /\ thresholds = ThresholdsNone
    /\ Len(deviation) >= 2
    /\ deviation[Len(deviation)] = Fin(1, 2)
    /\ stats.pattern_break = <<TRUE, FALSE, TRUE>>

\* the call is the one of test_zero_crossings_detected
Oscillating ==
    /\ Len(data1) >= 2
    /\ data1 = OscillatingSeries(Len(data1))
    /\ data2 = ConstantSeries(Len(data1))
    /\ thresholds = ThresholdsNone

\* C27: when exchange 1's bid oscillates 0.5% above and below exchange 2's
\* constant bid on alternate samples, the record has zero_crossings > 0 and
\* the cycle counts of the thresholds 0.3 and 0.4 are > 0.
C27_OscillationCycles ==
    (Returned /\ Oscillating) =>
        /\ stats.kind = "record"
        /\ stats.zero_crossings > 0
        /\ stats.opportunity_cycles[1] > 0
        /\ stats.opportunity_cycles[3] > 0

\* C27, as the code has it: every sample after the first is a zero crossing,
\* and since no sample is in the neutral zone (|deviation| is 0.5 throughout,
\* the zone ends at 0.05) no cycle is ever completed: every cycle count is 0,
\* while the deviation is above 0.3 and 0.4 on every row.
C27_OscillationNoCycles ==
    (Returned /\ Oscillating) =>
        /\ stats.kind = "record"
        /\ stats.zero_crossings = Len(data1) - 1
        /\ stats.zero_crossings > 0
        /\ \A x \in 1..3 : stats.opportunity_cycles[x] = 0
        /\ stats.pct_time_above[1] = Fin(100, 1)
        /\ stats.pct_time_above[3] = Fin(100, 1)

\* the oscillating series of MaxRows samples has been analyzed
C27_Witness ==
    /\ Returned
    /\ Oscillating
    /\ Len(data1) = MaxRows
    /\ stats.kind = "record"
    /\ stats.zero_crossings = MaxRows - 1


(***************************************************************************)
(* analyze_symbol_batch                                                    *)
(***************************************************************************)

Range(seq) == {seq[k] : k \in 1..Len(seq)}

\* What one call of load_exchange_symbol_data can hand to future.result(): an
\* exception, None, an empty frame, a series, or a series whose timestamp column
\* is an integer column ("data_int": the loader does not cast the timestamp).
LoadOutcomes == {"raise", "None", "empty", "data", "data_int"}

\* `data is not None and not data.is_empty()` (line 66), on a result that was
\* returned.
Loaded(outcome) == outcome \in {"data", "data_int"}

\* The series on disk for the task's symbol at each exchange.
DataOf(e) ==
    CASE e = 1 -> << [timestamp |-> 1, bestBid |-> 200], [timestamp |-> 2, bestBid |-> 201] >>
      [] e = 2 -> << [timestamp |-> 1, bestBid |-> 201] >>
      [] e = 3 -> << [timestamp |-> 2, bestBid |-> 200] >>
      [] OTHER -> << [timestamp |-> 1, bestBid |-> 201], [timestamp |-> 2, bestBid |-> 200] >>

\* The frame a successful load of exchange e returns.
FrameOf(outcome, e) ==
    [ts_dtype |-> IF outcome = "data_int" THEN "int" ELSE "datetime",
     rows |-> DataOf(e)]

\* The task lists of a symbol: distinct exchanges, at least two (discovery.py:59
\* keeps a symbol only with two exchanges or more), in any order (the list is
\* made from a set, run_all_ultra.py:188).
TaskLists ==
    UNION { { l \in [1..n -> 1..MaxExchanges] :
                \A a \in 1..n : \A b \in 1..n : a # b => l[a] # l[b] }
            : n \in 2..MaxExchanges }

RECURSIVE Insert(_, _)
Insert(x, l) ==
    IF l = <<>> THEN <<x>>
    ELSE IF x <= Head(l) THEN <<x>> \o l
    ELSE <<Head(l)>> \o Insert(x, Tail(l))

\* Mutant: the list is paired in the order the task gives it.
Sorted_AsListed(l) == l

\* sorted(exchanges)
RECURSIVE Sorted(_)
Sorted(l) == IF l = <<>> THEN <<>> ELSE Insert(Head(l), Sorted(Tail(l)))

RECURSIVE Comb(_, _, _)
Comb(l, a, b) ==
    IF a >= Len(l) THEN <<>>
    ELSE IF b > Len(l) THEN Comb(l, a + 1, a + 2)
    ELSE << <<l[a], l[b]>> >> \o Comb(l, a, b + 1)

\* list(combinations(l, 2)): index pairs a < b in lexicographic order
Combinations2(l) == Comb(l, 1, 2)

\* dict d with d[key] = value
DictPut(d, key, value) ==
    [x \in DOMAIN d \cup {key} |-> IF x = key THEN value ELSE d[x]]

\* Mutant: a failed load ends the collection loop; the futures not handled yet
\* are dropped.
Collect_StopOnFailure(ed, col, e, outcome) ==
    IF Loaded(outcome)
    THEN [exchange_data |-> DictPut(ed, e, FrameOf(outcome, e)), collected |-> col \cup {e}]
    ELSE [exchange_data |-> ed, collected |-> Range(exchanges)]

\* Mutant: a result is stored under the exchange listed at the position at
\* which its future completed, not under the exchange the future belongs to.
Collect_ByPosition(ed, col, e, outcome) ==
    IF Loaded(outcome)
    THEN [exchange_data |-> DictPut(ed, exchanges[Cardinality(col) + 1], FrameOf(outcome, e)),
          collected |-> col \cup {e}]
    ELSE [exchange_data |-> ed, collected |-> col \cup {e}]

\* One iteration of `for future in as_completed(...)`: the result is stored
\* when it is a non-empty frame; an exception is swallowed.
Collect(ed, col, e, outcome) ==
    IF Loaded(outcome)
    THEN [exchange_data |-> DictPut(ed, e, FrameOf(outcome, e)), collected |-> col \cup {e}]
    ELSE [exchange_data |-> ed, collected |-> col \cup {e}]

InitBatch ==
    /\ IdleRun
    /\ IdleCycles
    /\ IdlePair
    /\ IdleLoad
    /\ exchanges \in TaskLists
    /\ futures = <<>>
    /\ collected = {}
    /\ first_completed = 0
    /\ exchange_data = <<>>
    /\ loadCalls = [e \in 1..MaxExchanges |-> 0]
    /\ exchange_pairs = <<>>
    /\ results = <<>>
    /\ analyzed = {}
    /\ bpc = "submit"

\* The dict comprehension submits one load per listed exchange.
SubmitLoads ==
    /\ bpc = "submit"
    /\ futures' = [e \in Range(exchanges) |-> "pending"]
    /\ bpc' = "collect"
    /\ UNCHANGED <<exchanges, collected, first_completed, exchange_data, loadCalls, exchange_pairs,
                   results, analyzed>>
    /\ UNCHANGED <<cycVars, pairVars, runVars, loadVars>>

\* A loader thread runs load_exchange_symbol_data for e to its end.
LoadFinish(e) ==
    /\ e \in DOMAIN futures
    /\ futures[e] = "pending"
    /\ \E outcome \in LoadOutcomes : futures' = [futures EXCEPT ![e] = outcome]
    /\ loadCalls' = [loadCalls EXCEPT ![e] = @ + 1]
    /\ UNCHANGED <<exchanges, collected, first_completed, exchange_data, exchange_pairs, results,
                   analyzed, bpc>>
    /\ UNCHANGED <<cycVars, pairVars, runVars, loadVars>>

\* as_completed yields a finished future; the loop body handles it.
CollectFuture(e) ==
    /\ bpc = "collect"
    /\ e \in DOMAIN futures
    /\ futures[e] # "pending"
    /\ e \notin collected
    /\ LET c == Collect(exchange_data, collected, e, futures[e])
       IN  /\ exchange_data' = c.exchange_data
           /\ collected' = c.collected
           /\ first_completed' = IF collected = {} THEN e ELSE first_completed
    /\ UNCHANGED <<exchanges, futures, loadCalls, exchange_pairs, results, analyzed, bpc>>
    /\ UNCHANGED <<cycVars, pairVars, runVars, loadVars>>

\* Mutant: the pair phase starts as soon as one future has been handled.
StartPairs_Early ==
    /\ bpc = "collect"
    /\ collected # {}
    /\ results' = <<>>
    /\ exchange_pairs' = Combinations2(Sorted(exchanges))
    /\ bpc' = "pairs"
    /\ UNCHANGED <<exchanges, futures, collected, first_completed, exchange_data, loadCalls, analyzed>>
    /\ UNCHANGED <<cycVars, pairVars, runVars, loadVars>>

\* The as_completed loop has handled every future; the executor is shut down,
\* `results = []` and the pair list is built.
StartPairs ==
    /\ bpc = "collect"
    /\ collected = Range(exchanges)
    /\ results' = <<>>
    /\ exchange_pairs' = Combinations2(Sorted(exchanges))
    /\ bpc' = "pairs"
    /\ UNCHANGED <<exchanges, futures, collected, first_completed, exchange_data, loadCalls, analyzed>>
    /\ UNCHANGED <<cycVars, pairVars, runVars, loadVars>>

Result(ex1, ex2, status, st) ==
    [ex1 |-> ex1, ex2 |-> ex2, status |-> status, stats |-> st]

\* Mutant: a pair whose analysis returned None is recorded as an error.
PairStatus_ErrorOnNone(st) == IF st # NoneResult THEN "SUCCESS" ELSE "ERROR"

\* `'status': 'SUCCESS' if stats is not None else 'SKIPPED'` (lines 93-108)
PairStatus(st) == IF st # NoneResult THEN "SUCCESS" ELSE "SKIPPED"

\* The body of `for ex1, ex2 in exchange_pairs` for one pair, given the dict
\* exchange_data ed: whether analyze_pair_fast was called, whether an exception
\* left it (and so the task), and the result appended otherwise.
PairResult(ex1, ex2, ed, th, nanGreatest) ==
    IF ex1 \notin DOMAIN ed \/ ex2 \notin DOMAIN ed
    THEN [called |-> FALSE, propagated |-> FALSE,
          result |-> Result(ex1, ex2, "SKIPPED", NoneResult)]
    ELSE LET call == CallAnalyzePairFast(ed[ex1].rows, ed[ex2].rows,
                                         ed[ex1].ts_dtype, ed[ex2].ts_dtype,
                                         th, DefaultZeroThreshold,
                                         nanGreatest)
         IN  [called |-> TRUE, propagated |-> call.propagated,
              result |-> Result(ex1, ex2, PairStatus(call.value), call.value)]

\* Mutant: each pair loads its two series afresh.
AnalyzeNextPair_Reload ==
    /\ bpc = "pairs"
    /\ Len(results) < Len(exchange_pairs)
    /\ LET ex1 == exchange_pairs[Len(results) + 1][1]
           ex2 == exchange_pairs[Len(results) + 1][2]
       IN  /\ loadCalls' = [e \in DOMAIN loadCalls |->
                               loadCalls[e] + (IF e \in {ex1, ex2} THEN 1 ELSE 0)]
           /\ \E nanGreatest \in BOOLEAN :
                 \E r \in {PairResult(ex1, ex2, exchange_data, ThresholdsNone, nanGreatest)} :
                     /\ analyzed' = IF r.called THEN analyzed \cup {<<ex1, ex2>>}
                                    ELSE analyzed
                     /\ results' = IF r.propagated THEN results
                                   ELSE Append(results, r.result)
                     /\ bpc' = IF r.propagated THEN "raised" ELSE bpc
    /\ UNCHANGED <<exchanges, futures, collected, first_completed, exchange_data, exchange_pairs>>
    /\ UNCHANGED <<cycVars, pairVars, runVars, loadVars>>

\* The dict exchange_data after analyze_pair_fast was called with the frames
\* of ex1 and ex2: the dict holds the very frames the call was given.
CacheAfter(ed, ex1, ex2) ==
    [e \in DOMAIN ed |->
        IF e = ex1 THEN [ed[e] EXCEPT !.rows = InputsAfter(ed[ex1].rows, ed[ex2].rows)[1]]
        ELSE IF e = ex2 THEN [ed[e] EXCEPT !.rows = InputsAfter(ed[ex1].rows, ed[ex2].rows)[2]]
        ELSE ed[e]]

\* One iteration of `for ex1, ex2 in exchange_pairs`.
AnalyzeNextPair ==
    /\ bpc = "pairs"
    /\ Len(results) < Len(exchange_pairs)
    /\ LET ex1 == exchange_pairs[Len(results) + 1][1]
           ex2 == exchange_pairs[Len(results) + 1][2]
       IN  \E nanGreatest \in BOOLEAN :
              \E r \in {PairResult(ex1, ex2, exchange_data, ThresholdsNone, nanGreatest)} :
                  /\ analyzed' = IF r.called THEN analyzed \cup {<<ex1, ex2>>}
                                 ELSE analyzed
                  /\ results' = IF r.propagated THEN results
                                ELSE Append(results, r.result)
                  /\ bpc' = IF r.propagated THEN "raised" ELSE bpc
                  /\ exchange_data' = IF r.called THEN CacheAfter(exchange_data, ex1, ex2)
                                      ELSE exchange_data
    /\ UNCHANGED <<exchanges, futures, collected, first_completed, loadCalls,
                   exchange_pairs>>
    /\ UNCHANGED <<cycVars, pairVars, runVars, loadVars>>

\* `return results`
ReturnBatch ==
    /\ bpc = "pairs"
    /\ Len(results) = Len(exchange_pairs)
    /\ bpc' = "done"
    /\ UNCHANGED <<exchanges, futures, collected, first_completed, exchange_data, loadCalls,
                   exchange_pairs, results, analyzed>>
    /\ UNCHANGED <<cycVars, pairVars, runVars, loadVars>>

NextBatch ==
    \/ SubmitLoads
    \/ \E e \in 1..MaxExchanges : LoadFinish(e)
    \/ \E e \in 1..MaxExchanges : CollectFuture(e)
    \/ StartPairs
    \/ AnalyzeNextPair
    \/ ReturnBatch

SpecBatch == InitBatch /\ [][NextBatch]_vars

(***************************************************************************)
(* Claims about analyze_symbol_batch                                       *)
(***************************************************************************)

NExchanges == Cardinality(Range(exchanges))

\* pair p comes before pair q in lexicographic order
LexLess(p, q) == p[1] < q[1] \/ (p[1] = q[1] /\ p[2] < q[2])

ResultPair(k) == <<results[k].ex1, results[k].ex2>>

\* C8: the batch holds exactly C(N,2) results, each with ex1 < ex2 among the
\* task's exchanges, in strictly increasing lexicographic order of (ex1, ex2):
\* one result per unordered pair, the same sequence of pairs for every order
\* in which the task lists its exchanges.
C8_PairOrder ==
    bpc = "done" =>
        /\ 2 * Len(results) = NExchanges * (NExchanges - 1)
        /\ \A k \in 1..Len(results) :
              /\ results[k].ex1 \in Range(exchanges)
              /\ results[k].ex2 \in Range(exchanges)
              /\ results[k].ex1 < results[k].ex2
        /\ \A k \in 1..Len(results) : \A m \in 1..Len(results) :
              k < m => LexLess(ResultPair(k), ResultPair(m))

\* three exchanges listed out of order
C8_Witness ==
    /\ bpc = "done"
    /\ Len(exchanges) = 3
    /\ exchanges[1] > exchanges[2]
    /\ Len(results) = 3

\* C9: once the pair-analysis phase has begun, and to the end of the task,
\* load_exchange_symbol_data has been called exactly once for each exchange of
\* the task (and before that, at most once).
C9_OneLoadPerExchange ==
    /\ \A e \in 1..MaxExchanges :
          loadCalls[e] <= (IF e \in Range(exchanges) THEN 1 ELSE 0)
    /\ bpc \in {"pairs", "done"} => \A e \in Range(exchanges) : loadCalls[e] = 1

\* three exchanges, each in two analyzed pairs
C9_Witness ==
    /\ bpc = "done"
    /\ NExchanges = 3
    /\ Cardinality(analyzed) = 3
    /\ \A e \in Range(exchanges) : loadCalls[e] = 1

\* C10: a load that raises, returns None or returns an empty frame removes only
\* its own exchange from the loaded set: every load has completed, exactly the
\* exchanges whose load gave a series are kept, with that series, and at the end
\* every pair of kept exchanges has been analyzed and has its result.
C10_PartialFailure ==
    bpc \in {"pairs", "done"} =>
        /\ \A e \in Range(exchanges) :
              /\ futures[e] # "pending"
              /\ e \in DOMAIN exchange_data <=> Loaded(futures[e])
              /\ e \in DOMAIN exchange_data => exchange_data[e] = FrameOf(futures[e], e)
        /\ bpc = "done" =>
              \A a \in DOMAIN exchange_data : \A b \in DOMAIN exchange_data :
                  a < b => /\ <<a, b>> \in analyzed
                           /\ \E k \in 1..Len(results) : ResultPair(k) = <<a, b>>

\* one load raised, one returned nothing, and the pair of the others succeeded
C10_Witness ==
    /\ bpc = "done"
    /\ \E e \in Range(exchanges) : futures[e] = "raise"
    /\ \E k \in 1..Len(results) :
          /\ results[k].status = "SUCCESS"
          /\ ResultPair(k) \in analyzed
    /\ \E k \in 1..Len(results) :
          /\ results[k].status = "SKIPPED"
          /\ ResultPair(k) \notin analyzed

\* Some anchor row of exchange a's series has an observation of exchange b's
\* series at or before it.
HasObservation(a, b) ==
    \E k \in 1..Len(DataOf(a)) : JoinAsof(DataOf(a), DataOf(b))[k].row2 # 0

\* C11: a pair is recorded SKIPPED with no stats, never with any other
\* non-success status, when a series of it is missing from the loaded set (and
\* then analyze_pair_fast was not called for it) or when no anchor row has a
\* series-2 observation; and a pair's status depends on its own two series
\* only: with both loaded as well-formed series it is SUCCESS exactly when
\* some anchor row has an observation, whatever happened to the other loads.
C11_SkippedNoData ==
    \A k \in 1..Len(results) :
        LET a == results[k].ex1
            b == results[k].ex2
        IN  /\ results[k].status \in {"SUCCESS", "SKIPPED"}
            /\ (a \notin DOMAIN exchange_data \/ b \notin DOMAIN exchange_data)
                   => /\ results[k].status = "SKIPPED"
                      /\ results[k].stats = NoneResult
                      /\ <<a, b>> \notin analyzed
            /\ ({a, b} \subseteq DOMAIN exchange_data /\ ~HasObservation(a, b))
                   => /\ results[k].status = "SKIPPED"
                      /\ results[k].stats = NoneResult
            /\ (futures[a] = "data" /\ futures[b] = "data")
                   => (results[k].status = "SUCCESS" <=> HasObservation(a, b))

\* one load gave nothing: its pairs are skipped without a call, and the pair
\* of the two loaded series, which never overlap, is skipped by the analysis
C11_Witness ==
    /\ bpc = "done"
    /\ \E k \in 1..Len(results) :
          /\ ResultPair(k) \notin analyzed
          /\ futures[results[k].ex1] = "None"
          /\ results[k].status = "SKIPPED"
    /\ \E k \in 1..Len(results) :
          /\ ResultPair(k) \in analyzed
          /\ futures[results[k].ex1] = "data"
          /\ futures[results[k].ex2] = "data"
          /\ results[k].status = "SKIPPED"
          /\ results[k].stats = NoneResult

\* C20: no pair is analyzed, and no result recorded, until every load
\* submitted for the symbol has returned or raised: from the first pair on,
\* every exchange's load has been called and is no longer pending.
C20_PairsAfterLoads ==
    /\ bpc \in {"submit", "collect"} => (analyzed = {} /\ results = <<>>)
    /\ (analyzed # {} \/ results # <<>> \/ bpc \in {"pairs", "done", "raised"})
          => \A e \in Range(exchanges) :
                /\ e \in DOMAIN futures
                /\ futures[e] # "pending"
                /\ loadCalls[e] = 1

\* the first pair has just been analyzed; one of the loads had raised
C20_Witness ==
    /\ bpc = "pairs"
    /\ Cardinality(analyzed) = 1
    /\ Len(results) = 1
    /\ \E e \in Range(exchanges) : futures[e] = "raise"
    /\ \E e \in Range(exchanges) : futures[e] = "data"

\* The dict exchange_data after the as_completed loop has handled the futures
\* in the given order, from position k on.
RECURSIVE CollectAll(_, _, _, _)
CollectAll(order, k, ed, col) ==
    IF k > Len(order) THEN ed
    ELSE LET c == Collect(ed, col, order[k], futures[order[k]])
         IN  CollectAll(order, k + 1, c.exchange_data, c.collected)

\* The batch the task returns when its loads complete in the given order.
BatchInOrder(order) ==
    LET ed == CollectAll(order, 1, <<>>, {})
        pairs == Combinations2(Sorted(exchanges))
    IN  [k \in 1..Len(pairs) |-> PairResult(pairs[k][1], pairs[k][2], ed, ThresholdsNone, TRUE).result]

\* C21: the batch a task returns (the pairs, their order, their statuses and
\* their stats) does not depend on the order in which the loads completed:
\* whatever the completion order was, the batch is the one the task returns
\* when the loads complete in ascending order of exchange name.
C21_CompletionOrderFree ==
    bpc = "done" =>
        /\ first_completed \in Range(exchanges)
        /\ results = BatchInOrder(Sorted(exchanges))

\* a task has returned a batch with an analyzed pair after its loads completed
\* neither in the listed order nor in ascending order: the load that completed
\* first is neither the first listed nor the first by name
C21_Witness ==
    /\ bpc = "done"
    /\ first_completed # exchanges[1]
    /\ first_completed # Sorted(exchanges)[1]
    /\ \E k \in 1..Len(results) : results[k].status = "SUCCESS"
    /\ \E k \in 1..Len(results) : results[k].status = "SKIPPED"


\* the two series of a pair as a fresh load gives them, and nothing else
FreshPair(ex1, ex2) == [e \in {ex1, ex2} |-> FrameOf(futures[e], e)]

\* C34: analyze_pair_fast leaves its two input series as they were (same
\* rows, same column names): during and after the pair phase the series
\* cached for an exchange is the series its load returned, whatever pairs it
\* has been part of, and the result of every analyzed pair is the result of
\* analyzing that pair alone on freshly loaded series.
C34_InputsUnchanged ==
    bpc \in {"pairs", "done"} =>
        /\ \A e \in DOMAIN exchange_data :
              /\ exchange_data[e] = FrameOf(futures[e], e)
              /\ \A k \in 1..Len(exchange_data[e].rows) :
                    DOMAIN exchange_data[e].rows[k] = {"timestamp", "bestBid"}
        /\ \A k \in 1..Len(results) :
              ResultPair(k) \in analyzed =>
                  \E nanGreatest \in BOOLEAN :
                      results[k] = PairResult(ResultPair(k)[1], ResultPair(k)[2],
                                              FreshPair(ResultPair(k)[1], ResultPair(k)[2]),
                                              ThresholdsNone, nanGreatest).result

\* three loaded exchanges, each series used by two pairs, and one series used
\* by two pairs analyzed with success
C34_Witness ==
    /\ bpc = "done"
    /\ Cardinality(DOMAIN exchange_data) = 3
    /\ Cardinality(analyzed) = 3
    /\ \E k \in 1..Len(results) : \E m \in 1..Len(results) :
          /\ k < m
          /\ results[k].status = "SUCCESS" /\ results[m].status = "SUCCESS"
          /\ results[k].ex1 = results[m].ex1


(***************************************************************************)
(* run_ultra_fast_analysis and its worker pool                             *)
(***************************************************************************)

\* The exchange sets a discovered symbol can have: at least two exchanges
\* (discovery.py:59).
DiscoveredSets == {{1, 2}, {1, 4}, {1, 2, 3}}

\* The exchange sets symbol_map can hold for a symbol: also a single exchange.
SymbolMapSets == DiscoveredSets \cup {{1}}

\* Mutant: every symbol found is kept.
ValidSymbols_AtLeastOne(symbol_map) ==
    SelectSeq(symbol_map, LAMBDA e : Cardinality(e) >= 1)

\* discovery.py:59: the symbols found on at least two exchanges, in dict
\* order.
ValidSymbols(symbol_map) ==
    SelectSeq(symbol_map, LAMBDA e : Cardinality(e) >= 2)

\* What the files of a symbol give when loaded, per exchange.  A symbol on two
\* exchanges has a series at both; a symbol on three has one exchange that
\* fails: the lowest unreadable, or the highest with nothing to load, or the
\* highest a series with integer timestamps.
DiskRows(S) ==
    IF Cardinality(S) < 3 THEN { [e \in S |-> "data"] }
    ELSE { [e \in S |-> IF \A x \in S : e <= x THEN "raise" ELSE "data"],
           [e \in S |-> IF \A x \in S : e >= x THEN "None" ELSE "data"],
           [e \in S |-> IF \A x \in S : e >= x THEN "data_int" ELSE "data"] }

\* list(exchanges) for a set (line 188): a listing in some order, here the
\* descending one; what the task returns is the same for every listing (C8).
RECURSIVE ListOf(_)
ListOf(S) ==
    IF S = {} THEN <<>>
    ELSE LET m == CHOOSE x \in S : \A y \in S : y <= x
         IN  <<m>> \o ListOf(S \ {m})

\* len(list(combinations(exchanges, 2)))
NPairs(S) == (Cardinality(S) * (Cardinality(S) - 1)) \div 2

\* The result dict of analyze_symbol_batch, which carries the symbol.
BatchRow(symbol, r) ==
    [symbol |-> symbol, ex1 |-> r.ex1, ex2 |-> r.ex2, status |-> r.status, stats |-> r.stats]

\* analyze_symbol_batch as a function of its task and of what the loads give:
\* whether an exception left it, and the list it returns.
AnalyzeSymbolBatch(symbol, exs, out, th, nanGreatest) ==
    LET ed == [e \in {x \in Range(exs) : Loaded(out[x])} |-> FrameOf(out[e], e)]
        pairs == Combinations2(Sorted(exs))
        rs == [k \in 1..Len(pairs) |-> PairResult(pairs[k][1], pairs[k][2], ed, th, nanGreatest)]
    IN  [raised |-> \E k \in 1..Len(pairs) : rs[k].propagated,
         results |-> [k \in 1..Len(pairs) |-> BatchRow(symbol, rs[k].result)]]

\* The step-by-step task of SpecBatch returns what the function gives for
\* the outcomes of its loads.
BatchAsFunction ==
    bpc = "done" =>
        LET b == AnalyzeSymbolBatch(0, exchanges, futures, ThresholdsNone, TRUE)
        IN  /\ ~b.raised
            /\ Len(results) = Len(b.results)
            /\ \A k \in 1..Len(results) : BatchRow(0, results[k]) = b.results[k]

\* The row appended to all_stats for a successful result.
StatsRow(result) ==
    [symbol |-> result.symbol, exchange1 |-> result.ex1, exchange2 |-> result.ex2,
     stats |-> result.stats]

\* The accumulators of the receive loop.
Acc(p, su, sk, er, st) ==
    [processed_pairs |-> p, successful |-> su, skipped |-> sk, errors |-> er, all_stats |-> st]

\* Mutant: the `else` is lost and every result is counted as skipped as well.
AccStep_CountBoth(acc, result) ==
    IF result.status = "SUCCESS"
    THEN Acc(acc.processed_pairs + 1, acc.successful + 1, acc.skipped + 1, acc.errors,
             IF result.stats # NoneResult
             THEN Append(acc.all_stats, StatsRow(result)) ELSE acc.all_stats)
    ELSE Acc(acc.processed_pairs + 1, acc.successful, acc.skipped + 1, acc.errors,
             acc.all_stats)

\* Mutant: all_stats is rebound to the newest row instead of being appended to.
AccStep_Overwrite(acc, result) ==
    IF result.status = "SUCCESS"
    THEN Acc(acc.processed_pairs + 1, acc.successful + 1, acc.skipped, acc.errors,
             IF result.stats # NoneResult
             THEN <<StatsRow(result)>> ELSE acc.all_stats)
    ELSE Acc(acc.processed_pairs + 1, acc.successful, acc.skipped + 1, acc.errors,
             acc.all_stats)

\* The body of `for result in batch_results` (lines 214-233).  No branch
\* increments errors.
AccStep(acc, result) ==
    IF result.status = "SUCCESS"
    THEN Acc(acc.processed_pairs + 1, acc.successful + 1, acc.skipped, acc.errors,
             IF result.stats # NoneResult
             THEN Append(acc.all_stats, StatsRow(result)) ELSE acc.all_stats)
    ELSE Acc(acc.processed_pairs + 1, acc.successful, acc.skipped + 1, acc.errors,
             acc.all_stats)

\* `for result in batch_results` over a whole batch
RECURSIVE AccBatch(_, _)
AccBatch(acc, batch) ==
    IF batch = <<>> THEN acc ELSE AccBatch(AccStep(acc, Head(batch)), Tail(batch))

\* Column zero_crossings_per_minute of a row of all_stats.
ZcKey(row) == row.stats.zero_crossings_per_minute

\* Column opportunity_cycles_040bp: the cycle count of thresholds[2].
CyclesKey(row) == Fin(row.stats.opportunity_cycles[3], 1)

\* The orders in which the rows with indices I can follow one another with
\* non-increasing keys.
RECURSIVE SortedOrders(_, _, _)
SortedOrders(rows, keys, I) ==
    IF I = {} THEN {<<>>}
    ELSE UNION { { <<rows[a]>> \o rest : rest \in SortedOrders(rows, keys, I \ {a}) }
                 : a \in {x \in I : \A y \in I : ~Less(keys[x], keys[y])} }

\* Mutant: the frame is left in the order it has.
SortDescending_Unsorted(rows, keys) == {rows}

\* DataFrame.sort(column, descending=True).  maintain_order is left at its
\* default False: the order of rows with equal keys is whatever the build
\* produces, so every descending order of the rows is an outcome.
SortDescending(rows, keys) == SortedOrders(rows, keys, 1..Len(rows))

\* The thresholds a run is given: none (the default, lines 119 and 155-156)
\* or a custom triple (--thresholds, lines 335-358).
RunThresholds == {ThresholdsNone, WideThresholds}

\* The exchange filters a run is given: none, or the first two exchanges
\* (--exchanges, lines 338 and 386).
Filters == {{}, {1, 2}}

InitRun ==
    /\ IdleCycles
    /\ IdlePair
    /\ IdleBatch
    /\ IdleLoad
    /\ \E n \in 0..MaxSymbols : \E symbol_map \in [1..n -> SymbolMapSets] :
          /\ symbols_to_analyze = ValidSymbols(symbol_map)
          /\ disk \in [1..Len(symbols_to_analyze) ->
                          UNION {DiskRows(S) : S \in SymbolMapSets}]
          /\ \A sy \in 1..Len(symbols_to_analyze) :
                disk[sy] \in DiskRows(symbols_to_analyze[sy])
    /\ discovered = symbols_to_analyze
    /\ exchanges_filter \in Filters
    /\ run_thresholds \in RunThresholds
    /\ tasks = <<>>
    /\ total_pairs = 0
    /\ taskq = <<>>
    /\ worker = [w \in 1..MaxWorkers |-> 0]
    /\ outq = <<>>
    /\ successful = 0
    /\ skipped = 0
    /\ errors = 0
    /\ processed_pairs = 0
    /\ all_stats = <<>>
    /\ stats_df = <<>>
    /\ cycles_sorted = <<>>
    /\ rpc = "start"
    /\ taken = <<>>
    /\ received = <<>>

RECURSIVE SumPairs(_, _)
SumPairs(m, n) == IF n = 0 THEN 0 ELSE SumPairs(m, n - 1) + NPairs(m[n])

\* Mutant: a symbol left with one exchange is kept.
KeptSymbols_AtLeastOne(syms, filter) ==
    SelectSeq([k \in 1..Len(syms) |-> k],
              LAMBDA k : filter = {} \/ Cardinality(syms[k] \cap filter) >= 1)

\* Lines 163-173: the symbols kept by the filter, in dict order; without a
\* filter (`if exchanges_filter` false) all of them.
KeptSymbols(syms, filter) ==
    SelectSeq([k \in 1..Len(syms) |-> k],
              LAMBDA k : filter = {} \/ Cardinality(syms[k] \cap filter) >= 2)

\* Line 168: the exchanges a kept symbol is left with.
FilteredExchanges(S, filter) == IF filter = {} THEN S ELSE S \cap filter

\* Lines 148-211: nothing discovered ends the run, and so does a filter that
\* keeps no symbol; otherwise one task per kept symbol in dict order,
\* total_pairs, zeroed counters, and the pool is handed the task list.  disk
\* follows symbols_to_analyze: the files of the kept symbols at the
\* exchanges they are left with.
PrepareTasks ==
    /\ rpc = "start"
    /\ LET kept == KeptSymbols(symbols_to_analyze, exchanges_filter)
           syms == [k \in 1..Len(kept) |->
                      FilteredExchanges(symbols_to_analyze[kept[k]], exchanges_filter)]
       IN  /\ symbols_to_analyze' = syms
           /\ disk' = [k \in 1..Len(kept) |-> [e \in syms[k] |-> disk[kept[k]][e]]]
           /\ IF Len(syms) = 0
              THEN /\ rpc' = "returned"
                   /\ UNCHANGED <<tasks, total_pairs, taskq, taken, received>>
              ELSE /\ tasks' = [t \in 1..Len(syms) |->
                                   [symbol |-> t, exchanges |-> ListOf(syms[t]),
                                    thresholds |-> run_thresholds]]
                   /\ total_pairs' = SumPairs(syms, Len(syms))
                   /\ taskq' = [t \in 1..Len(syms) |-> t]
                   /\ taken' = [t \in 1..Len(syms) |-> 0]
                   /\ received' = [t \in 1..Len(syms) |-> 0]
                   /\ rpc' = "loop"
    /\ successful' = 0
    /\ skipped' = 0
    /\ errors' = 0
    /\ all_stats' = <<>>
    /\ processed_pairs' = 0
    /\ UNCHANGED <<discovered, exchanges_filter, run_thresholds, worker, outq, stats_df,
                   cycles_sorted>>
    /\ UNCHANGED <<cycVars, pairVars, batchVars, loadVars>>

\* Mutant: a worker reads the next task and leaves it in the queue.
TakeTask_NoPop(w) ==
    /\ rpc = "loop"
    /\ worker[w] = 0
    /\ taskq # <<>>
    /\ taken[Head(taskq)] < 2
    /\ worker' = [worker EXCEPT ![w] = Head(taskq)]
    /\ taken' = [taken EXCEPT ![Head(taskq)] = @ + 1]
    /\ UNCHANGED <<taskq, outq>>
    /\ UNCHANGED <<discovered, exchanges_filter, symbols_to_analyze, disk, run_thresholds, tasks, total_pairs, accVars, stats_df,
                   cycles_sorted, rpc, received>>
    /\ UNCHANGED <<cycVars, pairVars, batchVars, loadVars>>

\* An idle pool worker takes the next task off the task queue (chunksize=1).
TakeTask(w) ==
    /\ rpc = "loop"
    /\ worker[w] = 0
    /\ taskq # <<>>
    /\ worker' = [worker EXCEPT ![w] = Head(taskq)]
    /\ taskq' = Tail(taskq)
    /\ taken' = [taken EXCEPT ![Head(taskq)] = @ + 1]
    /\ UNCHANGED outq
    /\ UNCHANGED <<discovered, exchanges_filter, symbols_to_analyze, disk, run_thresholds, tasks, total_pairs, accVars, stats_df,
                   cycles_sorted, rpc, received>>
    /\ UNCHANGED <<cycVars, pairVars, batchVars, loadVars>>

\* Mutant: the task ends and its batch never reaches the result queue.
FinishTask_Lost(w) ==
    /\ worker[w] # 0
    /\ worker' = [worker EXCEPT ![w] = 0]
    /\ UNCHANGED <<taskq, outq>>
    /\ UNCHANGED <<discovered, exchanges_filter, symbols_to_analyze, disk, run_thresholds, tasks,
                   total_pairs, accVars, stats_df, cycles_sorted, rpc, taken, received>>
    /\ UNCHANGED <<cycVars, pairVars, batchVars, loadVars>>

\* What worker w puts on the result queue when its task ends.
TaskOutput(w, nanGreatest) ==
    LET t == worker[w]
    IN  [task |-> t,
         batch |-> AnalyzeSymbolBatch(tasks[t].symbol, tasks[t].exchanges, disk[t],
                                      tasks[t].thresholds, nanGreatest)]

\* Mutant: the worker counts and appends its results itself, into the
\* orchestrator's accumulators, besides returning them.
FinishTask_WritesShared(w) ==
    /\ worker[w] # 0
    /\ \E nanGreatest \in BOOLEAN :
          LET o == TaskOutput(w, nanGreatest)
              acc == AccBatch(Acc(processed_pairs, successful, skipped, errors, all_stats),
                              o.batch.results)
          IN  /\ outq' = Append(outq, o)
              /\ processed_pairs' = acc.processed_pairs
              /\ successful' = acc.successful
              /\ skipped' = acc.skipped
              /\ errors' = acc.errors
              /\ all_stats' = acc.all_stats
    /\ worker' = [worker EXCEPT ![w] = 0]
    /\ UNCHANGED taskq
    /\ UNCHANGED <<discovered, exchanges_filter, symbols_to_analyze, disk, run_thresholds, tasks, total_pairs, stats_df,
                   cycles_sorted, rpc, taken, received>>
    /\ UNCHANGED <<cycVars, pairVars, batchVars, loadVars>>

\* A worker runs analyze_symbol_batch on its task to the end; the pool puts
\* the returned list (or the exception) on the result queue.
FinishTask(w) ==
    /\ worker[w] # 0
    /\ \E nanGreatest \in BOOLEAN : outq' = Append(outq, TaskOutput(w, nanGreatest))
    /\ worker' = [worker EXCEPT ![w] = 0]
    /\ UNCHANGED taskq
    /\ UNCHANGED <<discovered, exchanges_filter, symbols_to_analyze, disk, run_thresholds, tasks, total_pairs, accVars, stats_df,
                   cycles_sorted, rpc, taken, received>>
    /\ UNCHANGED <<cycVars, pairVars, batchVars, loadVars>>

\* One iteration of `for batch_results in results_batches`: imap_unordered
\* yields the batch that reached the result queue first, and the inner loop
\* runs over it.  An exception of the task is re-raised here.
ReceiveBatch ==
    /\ rpc = "loop"
    /\ outq # <<>>
    /\ LET o == Head(outq)
           acc == AccBatch(Acc(processed_pairs, successful, skipped, errors, all_stats),
                           o.batch.results)
       IN  /\ received' = [received EXCEPT ![o.task] = @ + 1]
           /\ IF o.batch.raised
              THEN /\ rpc' = "crashed"
                   /\ UNCHANGED accVars
              ELSE /\ processed_pairs' = acc.processed_pairs
                   /\ successful' = acc.successful
                   /\ skipped' = acc.skipped
                   /\ errors' = acc.errors
                   /\ all_stats' = acc.all_stats
                   /\ UNCHANGED rpc
    /\ outq' = Tail(outq)
    /\ UNCHANGED <<taskq, worker>>
    /\ UNCHANGED <<discovered, exchanges_filter, symbols_to_analyze, disk, run_thresholds, tasks, total_pairs, stats_df,
                   cycles_sorted, taken>>
    /\ UNCHANGED <<cycVars, pairVars, batchVars, loadVars>>

\* The task of every batch not yet yielded is queued, running, or on the
\* result queue.
PoolBusy == taskq # <<>> \/ outq # <<>> \/ \E w \in 1..MaxWorkers : worker[w] # 0

\* results_batches is exhausted and the pool is closed (line 209).
EndLoop ==
    /\ rpc = "loop"
    /\ ~PoolBusy
    /\ rpc' = IF all_stats # <<>> THEN "save" ELSE "summary"
    /\ UNCHANGED <<discovered, exchanges_filter, symbols_to_analyze, disk, run_thresholds, tasks, total_pairs, poolVars, accVars,
                   stats_df, cycles_sorted, taken, received>>
    /\ UNCHANGED <<cycVars, pairVars, batchVars, loadVars>>

\* Lines 236-249: the frame is built from all_stats, sorted by
\* zero_crossings_per_minute and written to the CSV file.
SaveStats ==
    /\ rpc = "save"
    /\ stats_df' \in SortDescending(all_stats, [k \in 1..Len(all_stats) |-> ZcKey(all_stats[k])])
    /\ rpc' = "rank"
    /\ UNCHANGED <<discovered, exchanges_filter, symbols_to_analyze, disk, run_thresholds, tasks, total_pairs, poolVars, accVars,
                   cycles_sorted, taken, received>>
    /\ UNCHANGED <<cycVars, pairVars, batchVars, loadVars>>

\* Line 267: the sorted frame is sorted again, by opportunity_cycles_040bp.
RankCycles ==
    /\ rpc = "rank"
    /\ cycles_sorted' \in SortDescending(stats_df, [k \in 1..Len(stats_df) |-> CyclesKey(stats_df[k])])
    /\ rpc' = "summary"
    /\ UNCHANGED <<discovered, exchanges_filter, symbols_to_analyze, disk, run_thresholds, tasks, total_pairs, poolVars, accVars,
                   stats_df, taken, received>>
    /\ UNCHANGED <<cycVars, pairVars, batchVars, loadVars>>

NextRun ==
    \/ PrepareTasks
    \/ \E w \in 1..MaxWorkers : TakeTask(w)
    \/ \E w \in 1..MaxWorkers : FinishTask(w)
    \/ ReceiveBatch
    \/ EndLoop
    \/ SaveStats
    \/ RankCycles

SpecRun == InitRun /\ [][NextRun]_vars

\* Every task a worker runs ends (its loads and analyses terminate): no
\* worker runs a task for ever.  FinishTask(w) is enabled exactly while
\* worker w runs a task, so this is weak fairness of FinishTask(w).
TasksTerminate == \A w \in 1..MaxWorkers : []<>(worker[w] = 0)

\* The run with its scheduling: the orchestrator goes on whenever it can, a
\* free pool worker takes the next queued task, and a task a worker runs
\* ends.
FairRun ==
    /\ WF_vars(PrepareTasks)
    /\ \A w \in 1..MaxWorkers : WF_vars(TakeTask(w))
    /\ TasksTerminate
    /\ WF_vars(ReceiveBatch)
    /\ WF_vars(EndLoop)
    /\ WF_vars(SaveStats)
    /\ WF_vars(RankCycles)

SpecRunFair == InitRun /\ [][NextRun]_vars /\ FairRun


(***************************************************************************)
(* Claims about run_ultra_fast_analysis                                    *)
(***************************************************************************)

\* The final summary (lines 281-285) has been reached.
Summary == rpc = "summary"

NTasks == Len(symbols_to_analyze)

\* What the files of a task's symbol can give at the exchanges S the task
\* is left with.
TaskDisks(S) ==
    { [e \in S |-> d[e]] :
        d \in UNION { DiskRows(T) : T \in {X \in DiscoveredSets : S \subseteq X} } }

\* What a task returns, tabulated: a function of the symbol's exchange set and
\* of what its loads give.
BatchTable ==
    [th \in RunThresholds |->
        [S \in DiscoveredSets |->
            [d \in TaskDisks(S) |-> AnalyzeSymbolBatch(0, ListOf(S), d, th, TRUE).results]]]

\* The batch task t returns.
ExpectedBatch(t) ==
    LET b == BatchTable[run_thresholds][symbols_to_analyze[t]][disk[t]]
    IN  [k \in 1..Len(b) |-> [b[k] EXCEPT !.symbol = t]]

RECURSIVE SuccessRows(_)
SuccessRows(batch) ==
    IF batch = <<>> THEN <<>>
    ELSE (IF Head(batch).status = "SUCCESS" THEN <<StatsRow(Head(batch))>> ELSE <<>>)
         \o SuccessRows(Tail(batch))

\* The rows all_stats holds when the batches are received in task order.
RECURSIVE RowsInTaskOrder(_)
RowsInTaskOrder(n) ==
    IF n = 0 THEN <<>> ELSE RowsInTaskOrder(n - 1) \o SuccessRows(ExpectedBatch(n))

ExpectedRows == Range(RowsInTaskOrder(NTasks))

\* number of results of batch with a status in S
CountStatus(batch, S) == Cardinality({k \in 1..Len(batch) : batch[k].status \in S})

RECURSIVE SumOver(_, _)
SumOver(f, n) == IF n = 0 THEN 0 ELSE SumOver(f, n - 1) + f[n]

\* The pairs of symbol t whose analysis raises for a reason other than missing
\* data: both series were loaded, and the join or the metric computation fails
\* on their schema.
FailedPairs(t) ==
    { p \in symbols_to_analyze[t] \X symbols_to_analyze[t] :
        /\ p[1] < p[2]
        /\ Loaded(disk[t][p[1]])
        /\ Loaded(disk[t][p[2]])
        /\ PairException(DataOf(p[1]), DataOf(p[2]),
                         FrameOf(disk[t][p[1]], p[1]).ts_dtype,
                         FrameOf(disk[t][p[2]], p[2]).ts_dtype)
               \in {"ComputeError", "AttributeError"} }

\* C12: a pair whose analysis raises an unexpected exception is counted in the
\* errored total of the final summary (and so is told apart from the pairs
\* skipped for lack of data, which are counted in skipped).
C12_FailedCounted ==
    Summary => errors = SumOver([t \in 1..NTasks |-> Cardinality(FailedPairs(t))], NTasks)

\* the rows in descending order of their keys, equal keys in the order of rows
RECURSIVE InsertDesc(_, _)
InsertDesc(x, l) ==
    IF l = <<>> THEN <<x>>
    ELSE IF Less(Head(l).key, x.key) THEN <<x>> \o l
    ELSE <<Head(l)>> \o InsertDesc(x, Tail(l))

RECURSIVE StableKeyed(_)
StableKeyed(l) ==
    IF l = <<>> THEN <<>>
    ELSE InsertDesc(l[Len(l)], StableKeyed(SubSeq(l, 1, Len(l) - 1)))

StableByZc(rows) ==
    LET r == StableKeyed([k \in 1..Len(rows) |-> [key |-> ZcKey(rows[k]), row |-> rows[k]]])
    IN  [k \in 1..Len(rows) |-> r[k].row]

StableByCycles(rows) ==
    LET r == StableKeyed([k \in 1..Len(rows) |-> [key |-> CyclesKey(rows[k]), row |-> rows[k]]])
    IN  [k \in 1..Len(rows) |-> r[k].row]

\* The rankings of the run in which the batches arrive in task order and the
\* sorts keep equal keys in their order.
RefRanking == StableByZc(RowsInTaskOrder(NTasks))
RefCycles == StableByCycles(RefRanking)

ZcKeys(rows) == [k \in 1..Len(rows) |-> ZcKey(rows[k])]
CycleKeys(rows) == [k \in 1..Len(rows) |-> CyclesKey(rows[k])]

\* C15 as stated: the two rankings are the same rows in the same order for
\* every order in which the batches are received (here even for the runs only
\* in which both sorts keep equal keys in their order).
C15_SameRankings ==
    (Summary /\ stats_df = StableByZc(all_stats) /\ cycles_sorted = StableByCycles(stats_df))
        => (stats_df = RefRanking /\ cycles_sorted = RefCycles)

\* C15, amended: for every order in which the batches are received the two
\* rankings hold the same rows, each once, and the same sequence of keys; they
\* can differ only in the order of rows with equal keys.
C15_RankingsUpToTies ==
    Summary =>
        /\ Range(stats_df) = ExpectedRows
        /\ Len(stats_df) = Cardinality(ExpectedRows)
        /\ ZcKeys(stats_df) = ZcKeys(RefRanking)
        /\ Range(cycles_sorted) = ExpectedRows
        /\ Len(cycles_sorted) = Cardinality(ExpectedRows)
        /\ CycleKeys(cycles_sorted) = CycleKeys(RefCycles)

\* the batches were received out of task order, two rows have equal keys, and
\* the primary ranking is not the one of the in-order run
C15_Witness ==
    /\ Summary
    /\ all_stats # RowsInTaskOrder(NTasks)
    /\ \E a \in 1..Len(stats_df) : \E b \in 1..Len(stats_df) :
          /\ a # b
          /\ stats_df[a].symbol # stats_df[b].symbol
          /\ ZcKey(stats_df[a]) = ZcKey(stats_df[b])
    /\ stats_df # RefRanking

Descending(keys) == \A k \in 1..(Len(keys) - 1) : ~Less(keys[k], keys[k + 1])

\* position of a row in all_stats
AppendIndex(row) == CHOOSE k \in 1..Len(all_stats) : all_stats[k] = row

KeepsAppendOrder(rows, keys) ==
    \A a \in 1..Len(rows) : \A b \in 1..Len(rows) :
        (a < b /\ keys[a] = keys[b]) => AppendIndex(rows[a]) < AppendIndex(rows[b])

\* C16: both rankings are in descending order of their key, and rows with
\* equal keys keep the order in which they were appended to all_stats.
C16_StableDescending ==
    Summary =>
        /\ Descending(ZcKeys(stats_df))
        /\ KeepsAppendOrder(stats_df, ZcKeys(stats_df))
        /\ Descending(CycleKeys(cycles_sorted))
        /\ KeepsAppendOrder(cycles_sorted, CycleKeys(cycles_sorted))

\* What holds of the code: both rankings are in descending order of their key.
C16_Descending ==
    Summary => (Descending(ZcKeys(stats_df)) /\ Descending(CycleKeys(cycles_sorted)))

\* C17: at the final summary every pair result has been counted in exactly
\* one of successful, skipped and errors: the three add up to total_pairs, the
\* sum of C(N,2) over the dispatched symbols, successful is the number of
\* SUCCESS results and skipped the number of all others, also when loads or
\* analyses failed.
C17_TotalsPartition ==
    Summary =>
        /\ total_pairs = SumOver([t \in 1..NTasks |-> NPairs(symbols_to_analyze[t])], NTasks)
        /\ successful + skipped + errors = total_pairs
        /\ processed_pairs = total_pairs
        /\ successful = SumOver([t \in 1..NTasks |->
                                    CountStatus(ExpectedBatch(t), {"SUCCESS"})], NTasks)
        /\ skipped + errors = SumOver([t \in 1..NTasks |->
                                    CountStatus(ExpectedBatch(t), {"SKIPPED"})], NTasks)

\* a load raised, an analysis failed, and there are successes and skips
C17_Witness ==
    /\ Summary
    /\ \E t \in 1..NTasks : \E e \in symbols_to_analyze[t] : disk[t][e] = "raise"
    /\ \E t \in 1..NTasks : FailedPairs(t) # {}
    /\ successful > 0
    /\ skipped > 0

\* C18: the counters and all_stats change only in a step of the orchestrator's
\* receive loop, by the results of the batch at the head of the result queue,
\* whose task has been taken by a worker and is no longer queued or running;
\* a step of a worker changes that one worker's slot and the pool's queues and
\* nothing of the orchestrator.
C18_OrchestratorOnlyWrites ==
    [][ /\ (accVars' # accVars) =>
              /\ rpc = "loop"
              /\ outq # <<>>
              /\ outq' = Tail(outq)
              /\ worker' = worker
              /\ taken[Head(outq).task] >= 1
              /\ \A w \in 1..MaxWorkers : worker[w] # Head(outq).task
              /\ \A k \in 1..Len(taskq) : taskq[k] # Head(outq).task
              /\ received' = [received EXCEPT ![Head(outq).task] = @ + 1]
              /\ Acc(processed_pairs', successful', skipped', errors', all_stats')
                    = AccBatch(Acc(processed_pairs, successful, skipped, errors, all_stats),
                               Head(outq).batch.results)
        /\ (worker' # worker) =>
              /\ accVars' = accVars
              /\ <<stats_df', cycles_sorted', rpc', received'>>
                    = <<stats_df, cycles_sorted, rpc, received>>
              /\ Cardinality({w \in 1..MaxWorkers : worker'[w] # worker[w]}) = 1
      ]_vars

\* a batch has been received and counted while a worker still runs another task
C18_Witness ==
    /\ rpc = "loop"
    /\ processed_pairs > 0
    /\ \E t \in 1..NTasks : received[t] = 1
    /\ \E w \in 1..MaxWorkers : worker[w] # 0 /\ received[worker[w]] = 0

RowId(row) == <<row.symbol, row.exchange1, row.exchange2>>

\* C19: every task is taken by one worker, once, and its batch is received
\* once: never more than once on the way, and exactly once at the summary,
\* when there is one task per discovered symbol, every pair has been counted
\* once (processed_pairs is total_pairs) and no (symbol, pair) is in all_stats
\* twice.
C19_ExactlyOnce ==
    /\ \A t \in DOMAIN taken :
          /\ taken[t] <= 1
          /\ Cardinality({w \in 1..MaxWorkers : worker[w] = t}) <= 1
          /\ received[t] <= taken[t]
    /\ \A a \in 1..Len(all_stats) : \A b \in 1..Len(all_stats) :
          a # b => RowId(all_stats[a]) # RowId(all_stats[b])
    /\ Summary =>
          /\ Len(tasks) = NTasks
          /\ \A t \in 1..NTasks : taken[t] = 1 /\ received[t] = 1
          /\ processed_pairs = total_pairs
          /\ Range(all_stats) = ExpectedRows

\* two tasks, both taken and received, rows from both, the second first
C19_Witness ==
    /\ Summary
    /\ NTasks >= 2
    /\ Len(all_stats) >= 2
    /\ all_stats[1].symbol = 2
    /\ \E a \in 1..Len(all_stats) : all_stats[a].symbol = 1
    /\ \E a \in 1..Len(all_stats) : all_stats[a].symbol = 2

\* a < b for two thresholds, each a fraction <<numerator, denominator>>
ThresholdLess(a, b) == a[1] * b[2] < b[1] * a[2]

\* The position of the middle threshold of a triple: the one with exactly one
\* threshold below it.
MiddleIndex(t) ==
    CHOOSE x \in 1..3 : Cardinality({y \in 1..3 : ThresholdLess(t[y], t[x])}) = 1

\* the thresholds the analysis of this run works with
ConfiguredThresholds ==
    IF run_thresholds = ThresholdsNone THEN DefaultThresholds ELSE run_thresholds

\* the cycle counts of the ranked rows at threshold position x
CyclesAt(rows, x) == [k \in 1..Len(rows) |-> Fin(rows[k].stats.opportunity_cycles[x], 1)]

\* C29: the second ranking orders the rows by their complete-cycle count at
\* the middle threshold of the configured triple, the largest count first,
\* for the default thresholds and for a custom triple.
C29_RankedByMiddle ==
    Summary => Descending(CyclesAt(cycles_sorted, MiddleIndex(ConfiguredThresholds)))

\* What holds of the code: the second ranking is ordered by the count at the
\* threshold listed third, which is the middle one of the default triple.
C29_RankedByThird ==
    /\ MiddleIndex(DefaultThresholds) = 3
    /\ Summary => Descending(CyclesAt(cycles_sorted, 3))


\* the results on their way from the workers to the receive loop
InFlight == UNION { Range(outq[k].batch.results) : k \in 1..Len(outq) }

\* the keys the receive loop adds to a pair's record
RowKeys == {"symbol", "exchange1", "exchange2"}

\* C38: every SUCCESS result carries a non-empty stats record and every
\* SKIPPED result carries none; all_stats has as many rows as successful
\* counts, after every single result of the receive loop, and so has the
\* table saved; each row holds symbol, exchange1 and exchange2 next to all
\* fields of the record of that pair, none of which the three keys replace.
C38_RowsAreSuccesses ==
    /\ \A r \in InFlight :
          /\ r.status \in {"SUCCESS", "SKIPPED"}
          /\ r.status = "SUCCESS" => (r.stats # NoneResult /\ DOMAIN r.stats # {})
          /\ r.status = "SKIPPED" => r.stats = NoneResult
    /\ Len(all_stats) = successful
    /\ (rpc = "loop" /\ outq # <<>>) =>
          \A n \in 0..Len(Head(outq).batch.results) :
              LET acc == AccBatch(Acc(processed_pairs, successful, skipped, errors, all_stats),
                                  SubSeq(Head(outq).batch.results, 1, n))
              IN  Len(acc.all_stats) = acc.successful
    /\ rpc \in {"rank", "summary"} => Len(stats_df) = successful
    /\ \A a \in 1..Len(all_stats) :
          /\ DOMAIN all_stats[a].stats \cap RowKeys = {}
          /\ \E t \in 1..NTasks : \E k \in 1..Len(ExpectedBatch(t)) :
                /\ ExpectedBatch(t)[k].status = "SUCCESS"
                /\ all_stats[a] = [symbol |-> ExpectedBatch(t)[k].symbol,
                                   exchange1 |-> ExpectedBatch(t)[k].ex1,
                                   exchange2 |-> ExpectedBatch(t)[k].ex2,
                                   stats |-> ExpectedBatch(t)[k].stats]

\* a batch with a success and a skip is about to be received after rows of
\* another batch
C38_Witness ==
    /\ rpc = "loop"
    /\ outq # <<>>
    /\ successful >= 1
    /\ \E r \in Range(Head(outq).batch.results) : r.status = "SUCCESS"
    /\ \E r \in Range(Head(outq).batch.results) : r.status = "SKIPPED"

\* task t is queued, run by a worker, or its batch is on the result queue
Pending(t) ==
    \/ \E k \in 1..Len(taskq) : taskq[k] = t
    \/ \E w \in 1..MaxWorkers : worker[w] = t
    \/ \E k \in 1..Len(outq) : outq[k].task = t

\* the receive loop has no batch to take and a batch is still due
Waiting == rpc = "loop" /\ outq = <<>> /\ \E t \in 1..Len(tasks) : received[t] = 0

\* the final summary, with every batch received and every pair processed
Finished ==
    /\ Summary
    /\ \A t \in 1..Len(tasks) : received[t] = 1
    /\ processed_pairs = total_pairs

\* C39: under fair scheduling of the orchestrator and the workers, a run
\* whose tasks were dispatched reaches its final summary with every batch
\* received and processed_pairs equal to total_pairs; and whenever the
\* orchestrator waits for a batch, every batch not yet received is queued,
\* running or about to be delivered, and some worker runs a task or can
\* take one.
C39_ReachesSummary ==
    /\ [](Waiting =>
            /\ \A t \in 1..Len(tasks) : received[t] = 0 => Pending(t)
            /\ \E w \in 1..MaxWorkers : worker[w] # 0 \/ taskq # <<>>)
    /\ (rpc = "loop") ~> Finished

\* the orchestrator waits while both workers run a task each
C39_Witness ==
    /\ Waiting
    /\ \A w \in 1..MaxWorkers : worker[w] # 0
    /\ \A t \in 1..Len(tasks) : received[t] = 0

\* ThreadPoolExecutor(max_workers=len(exchanges)) (line 52): the size of the
\* loader pool of a task.
LoaderPoolSize(task) == Len(task.exchanges)

\* the number of discovered symbols left with at least two exchanges
NKept ==
    Cardinality({k \in 1..Len(discovered) :
                    \/ exchanges_filter = {}
                    \/ Cardinality(discovered[k] \cap exchanges_filter) >= 2})

\* C32: every task handed to the pool has at least two distinct exchanges,
\* with or without an exchanges filter (the tasks are the discovered symbols
\* left with two or more exchanges, each with its exchanges inside the
\* filter), so each batch has at least one pair and its loader pool at least
\* two workers; the pool is started with a non-empty task list only.
C32_TwoExchangesPerTask ==
    /\ \A t \in 1..Len(tasks) :
          /\ Cardinality(Range(tasks[t].exchanges)) >= 2
          /\ Len(tasks[t].exchanges) = Cardinality(Range(tasks[t].exchanges))
          /\ exchanges_filter # {} => Range(tasks[t].exchanges) \subseteq exchanges_filter
          /\ Len(Combinations2(Sorted(tasks[t].exchanges))) >= 1
          /\ LoaderPoolSize(tasks[t]) >= 2
    /\ rpc # "start" => Len(tasks) = NKept
    /\ rpc = "loop" => tasks # <<>>
    /\ tasks = <<>> => (taskq = <<>> /\ outq = <<>> /\ \A w \in 1..MaxWorkers : worker[w] = 0)

\* of two discovered symbols the filter dropped one and left the other, found
\* on three exchanges, with two
C32_Witness ==
    /\ rpc = "loop"
    /\ exchanges_filter # {}
    /\ Len(discovered) = 2
    /\ Len(tasks) = 1
    /\ \E k \in 1..2 : Cardinality(discovered[k]) = 3
    /\ Len(tasks[1].exchanges) = 2

(***************************************************************************)
(* load_exchange_symbol_data: the date filter                              *)
(***************************************************************************)

\* The days of one month a partition or a filter bound can name: they include
\* the change from one-digit to two-digit day numbers.
Days == 9..(MaxDays + 8)

\* Characters, as their code points: Python compares strings by code point.
Digit(n) == 48 + n
Dash == 45

\* Mutant: the day is written without a leading zero.
DateStr_Unpadded(d) ==
    <<Digit(2), Digit(0), Digit(2), Digit(5), Dash, Digit(1), Digit(1), Dash>>
        \o (IF d < 10 THEN <<Digit(d)>> ELSE <<Digit(d \div 10), Digit(d % 10)>>)

\* The YYYY-MM-DD string of day d of November 2025 (strftime('%Y-%m-%d'),
\* run_all_ultra.py:363; the dates of test_date_filter.py).
DateStr(d) ==
    <<Digit(2), Digit(0), Digit(2), Digit(5), Dash, Digit(1), Digit(1), Dash>>
        \o <<Digit(d \div 10), Digit(d % 10)>>

\* a <= b on Python strings: lexicographic by code point.
RECURSIVE StrLeq(_, _)
StrLeq(a, b) ==
    IF a = <<>> THEN TRUE
    ELSE IF b = <<>> THEN FALSE
    ELSE IF Head(a) # Head(b) THEN Head(a) < Head(b)
    ELSE StrLeq(Tail(a), Tail(b))

\* Mutant: the end date is exclusive.
InRange_EndExclusive(date_str, sd, ed) ==
    /\ (sd = NoDate \/ StrLeq(sd, date_str))
    /\ (ed = NoDate \/ (StrLeq(date_str, ed) /\ date_str # ed))

\* Line 76: (not start_date or date_str >= start_date) and
\*          (not end_date or date_str <= end_date)
InRange(date_str, sd, ed) ==
    /\ (sd = NoDate \/ StrLeq(sd, date_str))
    /\ (ed = NoDate \/ StrLeq(date_str, ed))

DateStrings == {DateStr(d) : d \in Days}

\* Strings are sequences of characters.
USDT == <<"U", "S", "D", "T">>
USDC == <<"U", "S", "D", "C">>

\* s starts with p
StartsWith(s, p) == Len(p) <= Len(s) /\ SubSeq(s, 1, Len(p)) = p

\* `sub in s`
Contains(s, sub) == \E k \in 0..(Len(s) - Len(sub)) : SubSeq(s, k + 1, k + Len(sub)) = sub

\* s.replace(old, new): every occurrence, left to right
RECURSIVE Replace(_, _, _)
Replace(s, old, new) ==
    IF s = <<>> THEN <<>>
    ELSE IF StartsWith(s, old)
         THEN new \o Replace(SubSeq(s, Len(old) + 1, Len(s)), old, new)
         ELSE <<Head(s)>> \o Replace(Tail(s), old, new)

\* The directory names symbol=RAW an exchange can hold: a base with the quote
\* USDT or USDC, joined by "_" (the collector's format), by "#" (legacy) or
\* by nothing.
RawNames ==
    { <<"B">> \o sep \o quote : sep \in {<<"_">>, <<"#">>, <<>>}, quote \in {USDT, USDC} }

\* discovery.py:45-54: the symbol name discover_data derives from RAW.
SymbolName(raw_symbol) ==
    IF Contains(raw_symbol, <<"_">> \o USDT)
    THEN Replace(raw_symbol, <<"_">> \o USDT, <<"/">> \o USDT)
    ELSE IF Contains(raw_symbol, <<"_">> \o USDC)
    THEN Replace(raw_symbol, <<"_">> \o USDC, <<"/">> \o USDC)
    ELSE Replace(raw_symbol, <<"#">>, <<"/">>)

\* data_loader.py:52-56: the directory names tried for a symbol, in order.
SymbolFormats(sym) ==
    << Replace(sym, <<"/">>, <<"_">>),
       Replace(sym, <<"/">>, <<"#">>),
       Replace(Replace(sym, <<"/">>, <<>>), <<"_">>, <<>>) >>

\* data_loader.py:58-63: the first candidate that exists.
FirstExisting(formats, dirs) ==
    IF formats[1] \in dirs THEN formats[1]
    ELSE IF formats[2] \in dirs THEN formats[2]
    ELSE IF formats[3] \in dirs THEN formats[3]
    ELSE NoPath

\* The rows one row of a parquet file can hold: a timestamp and a bid that
\* may be null (0 stands for null here; the ask is filtered alike).
FileRow == [timestamp : Timestamps, bestBid : {0, 200}]

\* The frames a scan of the collected files can give before the filter: up
\* to MaxFileRows rows in file order.
FileRows == UNION { [1..n -> FileRow] : n \in 0..MaxFileRows }

\* Lines 115-118: the rows with a null bid are dropped.
FilterNulls(rows) == SelectSeq(rows, LAMBDA r : r.bestBid # 0)

\* .sort('timestamp') (line 120): the rows in ascending timestamp order; the
\* order of rows with one timestamp is not fixed.
SortByTimestamp(rows) ==
    { [k \in 1..Len(rows) |-> rows[f[k]]] :
        f \in { g \in [1..Len(rows) -> 1..Len(rows)] :
                  /\ \A a \in 1..Len(rows) : \A b \in 1..Len(rows) : a # b => g[a] # g[b]
                  /\ \A a \in 1..(Len(rows) - 1) :
                        rows[g[a]].timestamp <= rows[g[a + 1]].timestamp } }

\* The collector's directory of the symbol B/USDT.
CollectorDir == <<"B">> \o <<"_">> \o USDT

InitLoad ==
    /\ IdleCycles
    /\ IdlePair
    /\ IdleBatch
    /\ IdleRun
    /\ \/ /\ exchange_exists = TRUE
          /\ symbol_dirs = {CollectorDir}
          /\ load_symbol = SymbolName(CollectorDir)
          /\ start_date \in DateStrings \cup {NoDate}
          /\ end_date \in DateStrings \cup {NoDate}
          /\ \E P \in SUBSET DateStrings : partitions \in [P -> BOOLEAN]
       \/ /\ exchange_exists \in BOOLEAN
          /\ symbol_dirs \in SUBSET RawNames
          /\ ~exchange_exists => symbol_dirs = {}
          /\ load_symbol \in {SymbolName(raw) : raw \in RawNames}
          /\ start_date = NoDate
          /\ end_date = NoDate
          /\ partitions \in {<<>>, [str \in {DateStr(9)} |-> TRUE]}
    /\ symbol_path = NoPath
    /\ available_dates = {}
    /\ visited = {}
    /\ all_files = {}
    /\ lpc = "call"
    /\ file_read = NotRead
    /\ frame = <<>>
    /\ loaded = "None"

\* Lines 41-45: a missing exchange directory gives None.
CheckExchange ==
    /\ lpc = "call"
    /\ lpc' = IF exchange_exists THEN "resolve" ELSE "returned"
    /\ UNCHANGED <<dirVars, symbol_path, start_date, end_date, partitions, available_dates,
                   visited, all_files, file_read, frame, loaded>>
    /\ UNCHANGED <<cycVars, pairVars, batchVars, runVars>>

\* Lines 52-66: the symbol directory is looked up under its three formats;
\* none existing gives None.
ResolveSymbol ==
    /\ lpc = "resolve"
    /\ symbol_path' = FirstExisting(SymbolFormats(load_symbol), symbol_dirs)
    /\ lpc' = IF symbol_path' = NoPath THEN "returned" ELSE "start"
    /\ UNCHANGED <<dirVars, start_date, end_date, partitions, available_dates,
                   visited, all_files, file_read, frame, loaded>>
    /\ UNCHANGED <<cycVars, pairVars, batchVars, runVars>>

\* Line 70: `if start_date or end_date`.
ChooseBranch ==
    /\ lpc = "start"
    /\ lpc' = IF start_date # NoDate \/ end_date # NoDate THEN "filter" ELSE "all"
    /\ UNCHANGED <<dirVars, symbol_path, file_read, frame>>
    /\ UNCHANGED <<start_date, end_date, partitions, available_dates, visited, all_files, loaded>>
    /\ UNCHANGED <<cycVars, pairVars, batchVars, runVars>>

\* Lines 72-80: the scandir loop keeps the date directories in range; with
\* none left the function returns None.
FilterDates ==
    /\ lpc = "filter"
    /\ available_dates' = {d \in DOMAIN partitions : InRange(d, start_date, end_date)}
    /\ lpc' = IF available_dates' = {} THEN "returned" ELSE "collect"
    /\ UNCHANGED <<dirVars, symbol_path, file_read, frame>>
    /\ UNCHANGED <<start_date, end_date, partitions, visited, all_files, loaded>>
    /\ UNCHANGED <<cycVars, pairVars, batchVars, runVars>>

\* Lines 83-89: the files of the filtered dates are collected.
CollectFiltered ==
    /\ lpc = "collect"
    /\ visited' = available_dates
    /\ all_files' = {d \in available_dates : partitions[d]}
    /\ lpc' = "scan"
    /\ UNCHANGED <<dirVars, symbol_path, file_read, frame>>
    /\ UNCHANGED <<start_date, end_date, partitions, available_dates, loaded>>
    /\ UNCHANGED <<cycVars, pairVars, batchVars, runVars>>

\* Lines 92-97: without a filter the files of every date directory are
\* collected.
CollectUnfiltered ==
    /\ lpc = "all"
    /\ visited' = DOMAIN partitions
    /\ all_files' = {d \in DOMAIN partitions : partitions[d]}
    /\ lpc' = "scan"
    /\ UNCHANGED <<dirVars, symbol_path, file_read, frame>>
    /\ UNCHANGED <<start_date, end_date, partitions, available_dates, loaded>>
    /\ UNCHANGED <<cycVars, pairVars, batchVars, runVars>>

\* Mutant: the frame is returned without the is_empty check.
ScanResult_NoEmptyCheck(read, nofiles) ==
    IF nofiles \/ ~read.ok
    THEN { [loaded |-> "None", frame |-> <<>>] }
    ELSE { [loaded |-> "data", frame |-> f] : f \in SortByTimestamp(FilterNulls(read.rows)) }

\* What lines 99-124 return for what the scan gives: None when the read fails
\* (the exception is caught at line 123) and when no row is left after the
\* null filter, otherwise the sorted frame.
ScanResult(read, nofiles) ==
    IF nofiles \/ ~read.ok \/ FilterNulls(read.rows) = <<>>
    THEN { [loaded |-> "None", frame |-> <<>>] }
    ELSE { [loaded |-> "data", frame |-> f] : f \in SortByTimestamp(FilterNulls(read.rows)) }

\* Lines 99-124: no file gives None; otherwise the files are scanned, the
\* rows with nulls dropped and the frame sorted; a failed read and an empty
\* frame give None.
ScanFiles ==
    /\ lpc = "scan"
    /\ \E read \in [ok : BOOLEAN, rows : FileRows] :
          /\ (all_files = {} \/ ~read.ok) => read.rows = <<>>
          /\ all_files = {} => read.ok
          /\ file_read' = read
          /\ \E r \in ScanResult(read, all_files = {}) :
                /\ loaded' = r.loaded
                /\ frame' = r.frame
    /\ lpc' = "returned"
    /\ UNCHANGED <<dirVars, symbol_path>>
    /\ UNCHANGED <<start_date, end_date, partitions, available_dates, visited, all_files>>
    /\ UNCHANGED <<cycVars, pairVars, batchVars, runVars>>

NextLoad ==
    \/ CheckExchange
    \/ ResolveSymbol
    \/ ChooseBranch
    \/ FilterDates
    \/ CollectFiltered
    \/ CollectUnfiltered
    \/ ScanFiles

SpecLoad == InitLoad /\ [][NextLoad]_vars

(***************************************************************************)
(* Claims about load_exchange_symbol_data                                  *)
(***************************************************************************)

\* The day a date string names.
DayOf(str) == CHOOSE d \in Days : DateStr(d) = str

\* The function has returned.
Loaded_Returned == lpc = "returned"

\* the date partitions whose files the call has collected
LoadedDays == {DayOf(str) : str \in visited}

\* the days that have a date partition
PartitionDays == {DayOf(str) : str \in DOMAIN partitions}

\* C30: the date filter is inclusive on both ends and each bound is
\* optional: a date partition d is loaded if and only if (start_date is
\* absent or d >= start_date) and (end_date is absent or d <= end_date), as
\* dates; with both absent every partition is loaded, and with start_date =
\* end_date exactly the partition of that date.
C30_DateFilter ==
    (Loaded_Returned /\ symbol_path # NoPath) =>
        /\ \A d \in PartitionDays :
              d \in LoadedDays <=>
                  /\ (start_date = NoDate \/ d >= DayOf(start_date))
                  /\ (end_date = NoDate \/ d <= DayOf(end_date))
        /\ LoadedDays \subseteq PartitionDays
        /\ (start_date = NoDate /\ end_date = NoDate) => LoadedDays = PartitionDays
        /\ (start_date # NoDate /\ start_date = end_date)
              => LoadedDays = PartitionDays \cap {DayOf(start_date)}
        /\ loaded = "data" => \E str \in visited : partitions[str]

\* the call has returned data for a filter from the 9th to the 10th, with
\* partitions for the 9th, 10th and 11th: the first two were loaded
C30_Witness ==
    /\ Loaded_Returned
    /\ loaded = "data"
    /\ start_date = DateStr(9)
    /\ end_date = DateStr(10)
    /\ PartitionDays = {9, 10, 11}
    /\ LoadedDays = {9, 10}

\* The frame is in ascending timestamp order.
Ascending(f) == \A k \in 1..(Len(f) - 1) : f[k].timestamp <= f[k + 1].timestamp

\* The call filtered by date and no date directory fell in the range.
NoDateInRange ==
    /\ symbol_path # NoPath
    /\ start_date # NoDate \/ end_date # NoDate
    /\ \A d \in DOMAIN partitions : ~InRange(d, start_date, end_date)

\* One of the cases of "no data": the exchange directory or the symbol
\* directory is missing, no date directory is in the range, no file exists,
\* the read failed, or no row is left after the null filter.
NoDataCase ==
    \/ ~exchange_exists
    \/ symbol_path = NoPath
    \/ NoDateInRange
    \/ all_files = {}
    \/ ~file_read.ok
    \/ FilterNulls(file_read.rows) = <<>>

\* C31: load_exchange_symbol_data returns None in each case of "no data"
\* (exchange directory missing, symbol directory missing, no date directory
\* in range, no file, failed read, empty filtered frame), and a frame it
\* returns is never empty and is sorted ascending by timestamp; a failed
\* read ends in the return of None, not in an exception.
C31_NoDataIsNone ==
    Loaded_Returned =>
        /\ NoDataCase => (loaded = "None" /\ frame = <<>>)
        /\ loaded = "data" => (frame # <<>> /\ Ascending(frame))
        /\ loaded \in {"None", "data"}

\* Witness: the files held only rows with a null bid, read without failure,
\* and None was returned.
C31_Witness ==
    /\ Loaded_Returned
    /\ all_files # {}
    /\ file_read.ok
    /\ Len(file_read.rows) = MaxFileRows
    /\ FilterNulls(file_read.rows) = <<>>
    /\ loaded = "None"

\* Witness: rows read out of timestamp order were returned sorted.
C31_WitnessSorted ==
    /\ Loaded_Returned
    /\ loaded = "data"
    /\ Len(frame) = 2
    /\ ~Ascending(file_read.rows)

\* C40 (as the specification states it, refuted): for every directory
\* symbol=RAW of the exchange, loading with the name discover_data derives
\* from RAW resolves to that directory, whatever other symbol directories
\* the exchange holds.
C40_RoundTrip ==
    (lpc \notin {"call", "resolve"} /\ exchange_exists) =>
        \A raw \in symbol_dirs : SymbolName(raw) = load_symbol => symbol_path = raw

====
